---- MODULE Spec2Model ----
(***************************************************************************)
(* Preprocessing worker pool (pp_worker.c) running against the shared      *)
(* preprocessing task queue.  The worker thread is translated from         *)
(* pp_worker_entry and its helpers; the queue operations it calls          *)
(* (pp_queue.c is not part of the sources at hand) follow the queue        *)
(* description of the specification, section 4.1.                          *)
(***************************************************************************)
EXTENDS Integers, Sequences, FiniteSets, TLC

\* ---------------------------------------------------------------- bounds
NWorkers == 2
MaxTasks == 2
MaxSteps == 3

\* tasks handed over in the runs that follow a primary and its dependents
MaxDataTasks == MaxTasks + 1

\* tasks handed over in the runs that watch the order of pending
MaxBacklog == MaxTasks + 1

\* items the configuration cache holds for the async poller
MaxPolled == 2

Workers == 1..NWorkers
ItemIds == {1, 2}

\* ------------------------------------------------------------ task model
ZBX_PP_TASK_TEST      == "TEST"
ZBX_PP_TASK_VALUE     == "VALUE"
ZBX_PP_TASK_VALUE_SEQ == "VALUE_SEQ"
ZBX_PP_TASK_DEPENDENT == "DEPENDENT"
ZBX_PP_TASK_SEQUENCE  == "SEQUENCE"

\* what the supervisor hands to enqueue: <<type, itemid>>
EnqueueInputs ==
  {<<ZBX_PP_TASK_TEST, 1>>, <<ZBX_PP_TASK_VALUE, 2>>, <<ZBX_PP_TASK_DEPENDENT, 1>>,
   <<ZBX_PP_TASK_VALUE_SEQ, 1>>, <<ZBX_PP_TASK_VALUE_SEQ, 2>>}

\* what the supervisor hands over in the start-up and shutdown runs
LifeInputs == {<<ZBX_PP_TASK_TEST, 1>>, <<ZBX_PP_TASK_VALUE_SEQ, 2>>}

NoTask == 0

\* process states reported to the timekeeper, and its slots: one per worker
ZBX_PROCESS_STATE_BUSY == "BUSY"
ZBX_PROCESS_STATE_IDLE == "IDLE"
Slots == 0..(NWorkers - 1)

PP_WORKER_INIT_NONE   == 0
PP_WORKER_INIT_THREAD == 1

\* return codes of zbxcommon.h; EAGAIN is the error pthread_create reports
\* when the thread cannot be created
SUCCEED == 0
FAIL    == 0 - 1
EAGAIN  == 11

VARIABLES
  tasks,        \* heap of task records, indexed by task id (creation order)
  pending,      \* queue lane: FIFO of task ids ready to start
  in_progress,  \* queue lane: set of task ids held by workers
  finished,     \* queue lane: FIFO of task ids returned by workers
  sequences,    \* queue: itemid -> id of the live SEQUENCE task, or NoTask
  worker_count, \* queue: number of registered workers
  lock,         \* queue mutex M: 0 when free, else the worker holding it
  pc,           \* per worker: position in pp_worker_entry
  stop,         \* per worker: worker->stop
  in,           \* per worker: local variable 'in' of pp_worker_entry
  cur,          \* per worker: the task whose pipeline it is executing
  run,          \* history, per task id: new, running, finished, dropped
  owner,        \* history, per task id: the SEQUENCE it was put into, or NoTask
  popped,       \* history, per task id: the heads push_finished took off it
  delivered,    \* history: every task id returned by fetch_finished, in order
  interrupted,  \* history, per worker: told to stop while running its current task
  init_flags,   \* per worker: worker->init_flags
  init_ret,     \* per worker: <<what pp_worker_init returned>>, <<>> before the call
  stop_called,  \* history, per worker: shutdown has called pp_worker_stop on it
  timekeeper,   \* worker->timekeeper: slot -> process state last reported for it
  widget,       \* a dashboard widget (class.widget-base.js): the fields of `this`
                \* its life cycle and update cycle use, and its requests in flight
  poller_config,
                \* zbx_poller_config_t of the async poller (poller.c), with the
                \* checks it has in flight
  data,         \* task id -> payload (step list, cache reference, input, primary)
  cache,        \* value cache: itemid -> <<value, timestamp>>, or NoValue
  result,       \* task id -> contents of the result slot of the task
  results,      \* task id -> per-step results vector of the task
  cache_log     \* history: <<task, itemid>> of every write to the value cache

vars == <<tasks, pending, in_progress, finished, sequences, worker_count, lock,
          pc, stop, in, cur, run, owner, popped, delivered, interrupted,
          init_flags, init_ret, stop_called, timekeeper, data, cache, result,
          results, cache_log, poller_config,
          widget>>

queue_vars == <<tasks, pending, in_progress, finished, sequences>>
hist_vars  == <<run, owner, popped, delivered, interrupted>>
life_vars  == <<init_flags, init_ret, stop_called, timekeeper, poller_config,
               widget>>
exec_vars  == <<data, cache, result, results, cache_log>>

\* the preprocessing workers, their queue and their supervisor
server_vars == <<queue_vars, worker_count, lock, pc, stop, in, cur, hist_vars,
                 init_flags, init_ret, stop_called, timekeeper, exec_vars>>

\* ---------------------------------------------------------------- helpers
RECURSIVE SeqCount(_, _)
SeqCount(s, x) ==
  IF s = <<>> THEN 0
  ELSE (IF Head(s) = x THEN 1 ELSE 0) + SeqCount(Tail(s), x)

InSeq(s, x) == \E i \in 1..Len(s) : s[i] = x

TaskIds == 1..Len(tasks)

\* tasks handed over by the supervisor (everything but the internal tokens)
Enqueued == {t \in TaskIds : tasks[t].type # ZBX_PP_TASK_SEQUENCE}

NewTask(type, itemid) == [type |-> type, itemid |-> itemid, tasks |-> <<>>]

\* ------------------------------------------------- queue (section 4.1)
\* The operations below take place under the queue mutex M: the caller
\* holds it (a worker) or takes it for the length of the call (supervisor).

\* Mutant: every VALUE_SEQ gets a SEQUENCE of its own, whether or not its item
\* has one.
pp_task_queue_push_AlwaysFresh(type, itemid) ==
  LET n == Len(tasks) + 1
  IN  IF type # ZBX_PP_TASK_VALUE_SEQ
      THEN /\ tasks' = Append(tasks, NewTask(type, itemid))
           /\ pending' = Append(pending, n)
           /\ run' = Append(run, "new")
           /\ owner' = Append(owner, NoTask)
           /\ popped' = Append(popped, <<>>)
           /\ UNCHANGED sequences
      ELSE /\ tasks' = tasks \o <<NewTask(type, itemid),
                                  [NewTask(ZBX_PP_TASK_SEQUENCE, itemid) EXCEPT
                                     !.tasks = <<n>>]>>
           /\ sequences' = [sequences EXCEPT ![itemid] = n + 1]
           /\ pending' = Append(pending, n + 1)
           /\ run' = run \o <<"new", "new">>
           /\ owner' = owner \o <<n + 1, NoTask>>
           /\ popped' = popped \o << <<>>, <<>> >>

\* enqueue(task): TEST, VALUE, DEPENDENT go to the tail of pending; a
\* VALUE_SEQ joins the live SEQUENCE of its item or gets a fresh one.
pp_task_queue_push(type, itemid) ==
  LET n   == Len(tasks) + 1
      seq == sequences[itemid]
  IN  IF type # ZBX_PP_TASK_VALUE_SEQ
      THEN /\ tasks' = Append(tasks, NewTask(type, itemid))
           /\ pending' = Append(pending, n)
           /\ run' = Append(run, "new")
           /\ owner' = Append(owner, NoTask)
           /\ popped' = Append(popped, <<>>)
           /\ UNCHANGED sequences
      ELSE IF seq # NoTask
      THEN /\ tasks' = [Append(tasks, NewTask(type, itemid)) EXCEPT
                          ![seq].tasks = Append(@, n)]
           /\ run' = Append(run, "new")
           /\ owner' = Append(owner, seq)
           /\ popped' = Append(popped, <<>>)
           /\ UNCHANGED <<pending, sequences>>
      ELSE /\ tasks' = tasks \o <<NewTask(type, itemid),
                                  [NewTask(ZBX_PP_TASK_SEQUENCE, itemid) EXCEPT
                                     !.tasks = <<n>>]>>
           /\ sequences' = [sequences EXCEPT ![itemid] = n + 1]
           /\ pending' = Append(pending, n + 1)
           /\ run' = run \o <<"new", "new">>
           /\ owner' = owner \o <<n + 1, NoTask>>
           /\ popped' = popped \o << <<>>, <<>> >>

\* pop_new(): the head of pending moves to in_progress and is returned;
\* none (NoTask) when pending is empty.
pp_task_queue_pop_new_result == IF pending = <<>> THEN NoTask ELSE Head(pending)

\* Mutant: pop_new takes the task that entered pending last.
pp_task_queue_pop_new_Last ==
  IF pending = <<>>
  THEN UNCHANGED <<pending, in_progress>>
  ELSE /\ pending' = SubSeq(pending, 1, Len(pending) - 1)
       /\ in_progress' = in_progress \cup {pending[Len(pending)]}

pp_task_queue_pop_new ==
  IF pending = <<>>
  THEN UNCHANGED <<pending, in_progress>>
  ELSE /\ pending' = Tail(pending)
       /\ in_progress' = in_progress \cup {Head(pending)}

\* what the history of a task becomes when the queue takes it back: r is the
\* task whose pipeline the returning worker has just run to its end
Returned(t, r) == IF t = r /\ run[t] = "running" THEN "finished" ELSE "dropped"

\* Mutant: a SEQUENCE that has run dry keeps its entry in sequences.
pp_task_queue_push_finished_KeepEntry(t, r) ==
  /\ in_progress' = in_progress \ {t}
  /\ IF tasks[t].type = ZBX_PP_TASK_SEQUENCE
     THEN LET q    == tasks[t].tasks
              rest == IF q = <<>> THEN <<>> ELSE Tail(q)
          IN  /\ tasks' = [tasks EXCEPT ![t].tasks = rest]
              /\ run' = IF q = <<>> THEN run
                        ELSE [run EXCEPT ![Head(q)] = Returned(Head(q), r)]
              /\ popped' = IF q = <<>> THEN popped
                           ELSE [popped EXCEPT ![t] = Append(@, Head(q))]
              /\ IF rest = <<>>
                 THEN /\ finished' = Append(finished, t)
                      /\ UNCHANGED <<pending, sequences>>
                 ELSE /\ pending' = Append(pending, t)
                      /\ UNCHANGED <<sequences, finished>>
     ELSE /\ finished' = Append(finished, t)
          /\ run' = [run EXCEPT ![t] = Returned(t, r)]
          /\ UNCHANGED <<tasks, pending, sequences, popped>>

\* Mutant: a SEQUENCE with sub-tasks left is put back at the head of pending.
pp_task_queue_push_finished_Head(t, r) ==
  /\ in_progress' = in_progress \ {t}
  /\ IF tasks[t].type = ZBX_PP_TASK_SEQUENCE
     THEN LET q    == tasks[t].tasks
              rest == IF q = <<>> THEN <<>> ELSE Tail(q)
          IN  /\ tasks' = [tasks EXCEPT ![t].tasks = rest]
              /\ run' = IF q = <<>> THEN run
                        ELSE [run EXCEPT ![Head(q)] = Returned(Head(q), r)]
              /\ popped' = IF q = <<>> THEN popped
                           ELSE [popped EXCEPT ![t] = Append(@, Head(q))]
              /\ IF rest = <<>>
                 THEN /\ sequences' = [sequences EXCEPT ![tasks[t].itemid] = NoTask]
                      /\ finished' = Append(finished, t)
                      /\ UNCHANGED pending
                 ELSE /\ pending' = <<t>> \o pending
                      /\ UNCHANGED <<sequences, finished>>
     ELSE /\ finished' = Append(finished, t)
          /\ run' = [run EXCEPT ![t] = Returned(t, r)]
          /\ UNCHANGED <<tasks, pending, sequences, popped>>

\* push_finished(T): T leaves in_progress; a SEQUENCE drops its head and is
\* requeued while sub-tasks remain, anything else goes to finished.
pp_task_queue_push_finished(t, r) ==
  /\ in_progress' = in_progress \ {t}
  /\ IF tasks[t].type = ZBX_PP_TASK_SEQUENCE
     THEN LET q    == tasks[t].tasks
              rest == IF q = <<>> THEN <<>> ELSE Tail(q)
          IN  /\ tasks' = [tasks EXCEPT ![t].tasks = rest]
              /\ run' = IF q = <<>> THEN run
                        ELSE [run EXCEPT ![Head(q)] = Returned(Head(q), r)]
              /\ popped' = IF q = <<>> THEN popped
                           ELSE [popped EXCEPT ![t] = Append(@, Head(q))]
              /\ IF rest = <<>>
                 THEN /\ sequences' = [sequences EXCEPT ![tasks[t].itemid] = NoTask]
                      /\ finished' = Append(finished, t)
                      /\ UNCHANGED pending
                 ELSE /\ pending' = Append(pending, t)
                      /\ UNCHANGED <<sequences, finished>>
     ELSE /\ finished' = Append(finished, t)
          /\ run' = [run EXCEPT ![t] = Returned(t, r)]
          /\ UNCHANGED <<tasks, pending, sequences, popped>>

\* Mutant: fetch_finished hands out the head of finished only.
pp_task_queue_fetch_finished_HeadOnly ==
  /\ delivered' = Append(delivered, Head(finished))
  /\ finished' = Tail(finished)

\* fetch_finished(): drain finished as one batch.
pp_task_queue_fetch_finished ==
  /\ delivered' = delivered \o finished
  /\ finished' = <<>>

pp_task_queue_register_worker == worker_count' = worker_count + 1

pp_task_queue_deregister_worker == worker_count' = worker_count - 1

\* ------------------------------------------- step executor (section 4.2)
\* pp_execute.c is not part of the sources at hand: the executor follows the
\* contract of section 4.2.  A step is a function of (value, timestamp) that
\* yields a new (value, timestamp), a discard marker or an error.
StepKinds == {"inc", "tick", "discard", "fail"}

NoValue == 0 - 1
NoCache == 0
NoEntry == <<NoValue, NoValue>>

\* what a data race on a result slot may leave in it
Undefined == [status |-> "undefined", value |-> NoValue, ts |-> NoValue,
              step |-> 0, evaluated |-> 0]

ApplyStep(kind, v, ts) ==
  CASE kind = "inc"     -> [status |-> "value", value |-> v + 1, ts |-> ts]
    [] kind = "tick"    -> [status |-> "value", value |-> v, ts |-> ts + 1]
    [] kind = "discard" -> [status |-> "none", value |-> NoValue, ts |-> ts]
    [] kind = "fail"    -> [status |-> "error", value |-> NoValue, ts |-> ts]

\* Mutant: the executor notes the error of a step and goes on with the next.
RECURSIVE pp_execute_steps_GoOn(_, _, _, _, _)
pp_execute_steps_GoOn(steps, i, v, ts, trace) ==
  IF i > Len(steps)
  THEN [status |-> "value", value |-> v, ts |-> ts, step |-> 0,
        evaluated |-> Len(steps), results |-> trace]
  ELSE LET r == ApplyStep(steps[i], v, ts)
       IN  IF r.status = "value"
           THEN pp_execute_steps_GoOn(steps, i + 1, r.value, r.ts,
                                      Append(trace, <<r.value, r.ts>>))
           ELSE IF r.status = "error" /\ i < Len(steps)
           THEN [pp_execute_steps_GoOn(steps, i + 1, v, ts,
                                       Append(trace, <<NoValue, ts>>))
                   EXCEPT !.status = "error", !.value = NoValue, !.step = i]
           ELSE [status |-> r.status, value |-> NoValue, ts |-> ts,
                 step |-> IF r.status = "error" THEN i ELSE 0,
                 evaluated |-> i, results |-> Append(trace, <<NoValue, ts>>)]

\* the steps from index i on, applied in order to (v, ts): stops at the first
\* step that fails (its index is kept) or discards; trace collects the state
\* after each step, evaluated counts the steps that were run
RECURSIVE pp_execute_steps(_, _, _, _, _)
pp_execute_steps(steps, i, v, ts, trace) ==
  IF i > Len(steps)
  THEN [status |-> "value", value |-> v, ts |-> ts, step |-> 0,
        evaluated |-> Len(steps), results |-> trace]
  ELSE LET r == ApplyStep(steps[i], v, ts)
       IN  IF r.status = "value"
           THEN pp_execute_steps(steps, i + 1, r.value, r.ts,
                                 Append(trace, <<r.value, r.ts>>))
           ELSE [status |-> r.status, value |-> NoValue, ts |-> ts,
                 step |-> IF r.status = "error" THEN i ELSE 0,
                 evaluated |-> i, results |-> Append(trace, <<NoValue, ts>>)]

\* the result slot a task's execution writes (see pp_task_process_dependent)
ResultSlot(t) ==
  IF t \in DOMAIN data /\ tasks[t].type = ZBX_PP_TASK_DEPENDENT
  THEN data[t].primary
  ELSE t

\* workers in the middle of a pipeline whose result goes to the given slot
Writers(slot) ==
  {w \in DOMAIN pc : pc[w] = "exec" /\ cur[w] # NoTask /\ ResultSlot(cur[w]) = slot}

\* execute(ctx, steps, cache, input_value, timestamp, out_result,
\* out_per_step_results): t is the task on whose behalf the pipeline runs,
\* cacheref the cache entry the task refers to (NoCache for NULL), slot the
\* task whose result slot is written, per_step whether a per-step vector was
\* passed.  A slot written by two pipelines at a time holds either what this
\* pipeline wrote or anything.
pp_execute(t, preproc, cacheref, v, ts, slot, per_step) ==
  LET out   == pp_execute_steps(preproc, 1, v, ts, <<>>)
      res   == [status |-> out.status, value |-> out.value, ts |-> out.ts,
                step |-> out.step, evaluated |-> out.evaluated]
      write == cacheref # NoCache /\ out.status = "value"
  IN  /\ \E r \in (IF Cardinality(Writers(slot)) > 1 THEN {res, Undefined} ELSE {res}) :
           result' = (slot :> r) @@ result
      /\ results' = IF per_step THEN (slot :> out.results) @@ results ELSE results
      /\ cache' = IF write THEN [cache EXCEPT ![cacheref] = <<out.value, out.ts>>]
                  ELSE cache
      /\ cache_log' = IF write THEN Append(cache_log, <<t, cacheref>>) ELSE cache_log

\* ------------------------------------------- task processing (pp_worker.c)
\* Mutant: the test task hands the cache entry of its item to the executor.
pp_task_process_test_WithCache(t) ==
  pp_execute(t, data[t].preproc, tasks[t].itemid, data[t].value, data[t].ts, t, TRUE)

\* Mutant: the test task hands no per-step vector to the executor.
pp_task_process_test_NoResults(t) ==
  pp_execute(t, data[t].preproc, NoCache, data[t].value, data[t].ts, t, FALSE)

pp_task_process_test(t) ==
  pp_execute(t, data[t].preproc, NoCache, data[t].value, data[t].ts, t, TRUE)

\* Mutant: the value task hands no cache to the executor.
pp_task_process_value_NoCache(t) ==
  pp_execute(t, data[t].preproc, NoCache, data[t].value, data[t].ts, t, FALSE)

pp_task_process_value(t) ==
  pp_execute(t, data[t].preproc, data[t].cache, data[t].value, data[t].ts, t, FALSE)

\* Mutant: the dependent task hands the cache reference of its primary to
\* the executor.
pp_task_process_dependent_PrimaryCache(t) ==
  LET d_first == data[t].primary
  IN  pp_execute(t, data[d_first].preproc, data[d_first].cache, data[d_first].value,
                 data[d_first].ts, d_first, FALSE)

\* steps, input, timestamp and result slot are those of the primary; only the
\* cache reference is the dependent's own
pp_task_process_dependent(t) ==
  LET d_first == data[t].primary
  IN  pp_execute(t, data[d_first].preproc, data[t].cache, data[d_first].value,
                 data[d_first].ts, d_first, FALSE)

\* the pipeline run for task t (the task picked by Dispatch); a task without
\* payload in the model, or no task, leaves the execution state alone
pp_task_process(t) ==
  IF t = NoTask \/ t \notin DOMAIN data
  THEN UNCHANGED <<cache, result, results, cache_log>>
  ELSE CASE tasks[t].type = ZBX_PP_TASK_TEST -> pp_task_process_test(t)
         [] tasks[t].type \in {ZBX_PP_TASK_VALUE, ZBX_PP_TASK_VALUE_SEQ} ->
              pp_task_process_value(t)
         [] tasks[t].type = ZBX_PP_TASK_DEPENDENT -> pp_task_process_dependent(t)

\* -------------------------------------------------- worker (pp_worker.c)
\* Each worker action is one stretch of pp_worker_entry that ends where the
\* thread next synchronises on M or reads worker->stop; the statements merged
\* into an action touch only data of the thread itself (its locals, the task
\* it holds).  pc: "start" thread created, "loop" at the loop head with M
\* held, "exec" popped task in hand (pipeline running, or waiting for M to
\* hand it back), "wait" inside pp_task_queue_wait, "exited" returned.
\* Mutant: the last sub-task of the list is taken instead of its head.
pp_task_process_sequence_Last(t) ==
  LET q == tasks[t].tasks
  IN  IF q = <<>> THEN NoTask ELSE q[Len(q)]

\* Mutant: the test of zbx_list_peek is inverted, no sub-task is ever run.
pp_task_process_sequence_Skip(t) == NoTask

\* The sub-task a worker runs for a SEQUENCE: the head of its list; nothing
\* when the list is empty or the head is of a kind the switch does not handle.
pp_task_process_sequence(t) ==
  LET q == tasks[t].tasks
  IN  IF q = <<>> THEN NoTask
      ELSE IF tasks[Head(q)].type \in
                {ZBX_PP_TASK_VALUE, ZBX_PP_TASK_VALUE_SEQ, ZBX_PP_TASK_DEPENDENT}
           THEN Head(q)
           ELSE NoTask

\* the switch of pp_worker_entry: the task whose pipeline runs for task t
Dispatch(t) ==
  IF tasks[t].type = ZBX_PP_TASK_SEQUENCE THEN pp_task_process_sequence(t) ELSE t

ThreadCreated(w) == init_flags[w] = PP_WORKER_INIT_THREAD

\* lines 114-123: the thread clears its stop flag, locks the queue, registers
WorkerStart(w) ==
  /\ pc[w] = "start"
  /\ stop' = [stop EXCEPT ![w] = 0]
  /\ lock = 0
  /\ lock' = w
  /\ pp_task_queue_register_worker
  /\ pc' = [pc EXCEPT ![w] = "loop"]
  /\ UNCHANGED <<queue_vars, in, cur, hist_vars>>
  /\ UNCHANGED <<life_vars, exec_vars>>

\* Mutant: the loop pops without looking at the stop flag.
WorkerPop_IgnoreStop(w) ==
  /\ pc[w] = "loop"
  /\ lock = w
  /\ pp_task_queue_pop_new_result # NoTask
  /\ pp_task_queue_pop_new
  /\ in' = [in EXCEPT ![w] = pp_task_queue_pop_new_result]
  /\ lock' = 0
  /\ cur' = [cur EXCEPT ![w] = Dispatch(pp_task_queue_pop_new_result)]
  /\ run' = IF Dispatch(pp_task_queue_pop_new_result) = NoTask THEN run
            ELSE [run EXCEPT ![Dispatch(pp_task_queue_pop_new_result)] = "running"]
  /\ pc' = [pc EXCEPT ![w] = "exec"]
  /\ UNCHANGED <<tasks, finished, sequences, worker_count, stop, owner, popped,
                 delivered, interrupted>>
  /\ UNCHANGED <<life_vars, exec_vars>>

\* Mutant: the worker hands the popped task straight back to the tail of
\* pending before it runs it.
WorkerPop_HandBackEarly(w) ==
  /\ pc[w] = "loop"
  /\ lock = w
  /\ stop[w] = 0
  /\ pp_task_queue_pop_new_result # NoTask
  /\ pending' = Append(Tail(pending), Head(pending))
  /\ in' = [in EXCEPT ![w] = pp_task_queue_pop_new_result]
  /\ lock' = 0
  /\ cur' = [cur EXCEPT ![w] = Dispatch(pp_task_queue_pop_new_result)]
  /\ run' = IF Dispatch(pp_task_queue_pop_new_result) = NoTask THEN run
            ELSE [run EXCEPT ![Dispatch(pp_task_queue_pop_new_result)] = "running"]
  /\ pc' = [pc EXCEPT ![w] = "exec"]
  /\ UNCHANGED <<tasks, in_progress, finished, sequences, worker_count, stop, owner,
                 popped, delivered, interrupted>>
  /\ UNCHANGED <<life_vars, exec_vars>>

\* lines 125-151: stop not set and a task popped: unlock, busy, dispatch on
\* the type of the popped task and start its pipeline
WorkerPop(w) ==
  /\ pc[w] = "loop"
  /\ lock = w
  /\ stop[w] = 0
  /\ pp_task_queue_pop_new_result # NoTask
  /\ pp_task_queue_pop_new
  /\ in' = [in EXCEPT ![w] = pp_task_queue_pop_new_result]
  /\ lock' = 0
  /\ cur' = [cur EXCEPT ![w] = Dispatch(pp_task_queue_pop_new_result)]
  /\ run' = IF Dispatch(pp_task_queue_pop_new_result) = NoTask THEN run
            ELSE [run EXCEPT ![Dispatch(pp_task_queue_pop_new_result)] = "running"]
  /\ pc' = [pc EXCEPT ![w] = "exec"]
  /\ UNCHANGED <<tasks, finished, sequences, worker_count, stop, owner, popped,
                 delivered, interrupted>>
  /\ UNCHANGED <<life_vars, exec_vars>>

\* lines 127, 161: nothing to pop: wait on the queue event (releases M)
WorkerWait(w) ==
  /\ pc[w] = "loop"
  /\ lock = w
  /\ stop[w] = 0
  /\ pp_task_queue_pop_new_result = NoTask
  /\ in' = [in EXCEPT ![w] = NoTask]
  /\ lock' = 0
  /\ pc' = [pc EXCEPT ![w] = "wait"]
  /\ UNCHANGED <<queue_vars, worker_count, stop, cur, hist_vars>>
  /\ UNCHANGED <<life_vars, exec_vars>>

\* Mutant: a failed wait stops every worker, not only the one that waited.
WorkerWake_StopAll(w, ok) ==
  /\ pc[w] = "wait"
  /\ lock = 0
  /\ lock' = w
  /\ stop' = IF ok THEN stop ELSE [v \in Workers |-> 1]
  /\ pc' = [pc EXCEPT ![w] = "loop"]
  /\ UNCHANGED <<queue_vars, worker_count, in, cur, hist_vars>>
  /\ UNCHANGED <<life_vars, exec_vars>>

\* lines 161-166: the wait returns (event, timeout or failure) with M held
\* again; a failed wait makes the worker stop itself
WorkerWake(w, ok) ==
  /\ pc[w] = "wait"
  /\ lock = 0
  /\ lock' = w
  /\ stop' = IF ok THEN stop ELSE [stop EXCEPT ![w] = 1]
  /\ pc' = [pc EXCEPT ![w] = "loop"]
  /\ UNCHANGED <<queue_vars, worker_count, in, cur, hist_vars>>
  /\ UNCHANGED <<life_vars, exec_vars>>

\* Mutant: a worker whose stop flag is set leaves after the pipeline without
\* handing its task back.
WorkerPushFinished_BreakOnStop(w) ==
  /\ pc[w] = "exec"
  /\ lock = 0
  /\ IF stop[w] # 0
     THEN /\ pp_task_queue_deregister_worker
          /\ pc' = [pc EXCEPT ![w] = "exited"]
          /\ UNCHANGED <<queue_vars, lock, run, popped>>
     ELSE /\ lock' = w
          /\ pp_task_queue_push_finished(in[w], cur[w])
          /\ pc' = [pc EXCEPT ![w] = "loop"]
          /\ UNCHANGED worker_count
  /\ cur' = [cur EXCEPT ![w] = NoTask]
  /\ UNCHANGED <<stop, in, owner, delivered, interrupted>>
  /\ pp_task_process(cur[w])
  /\ UNCHANGED <<life_vars, data>>

\* lines 139-158: the pipeline has run to its end; idle, lock the queue, hand
\* the popped task back, continue
WorkerPushFinished(w) ==
  /\ pc[w] = "exec"
  /\ lock = 0
  /\ lock' = w
  /\ pp_task_queue_push_finished(in[w], cur[w])
  /\ cur' = [cur EXCEPT ![w] = NoTask]
  /\ pc' = [pc EXCEPT ![w] = "loop"]
  /\ UNCHANGED <<worker_count, stop, in, owner, delivered, interrupted>>
  /\ pp_task_process(cur[w])
  /\ UNCHANGED <<life_vars, data>>

\* Mutant: the worker returns without deregistering.
WorkerExit_NoDeregister(w) ==
  /\ pc[w] = "loop"
  /\ lock = w
  /\ stop[w] # 0
  /\ lock' = 0
  /\ in' = [in EXCEPT ![w] = NoTask]
  /\ pc' = [pc EXCEPT ![w] = "exited"]
  /\ interrupted' = [interrupted EXCEPT ![w] = FALSE]
  /\ UNCHANGED <<queue_vars, worker_count, stop, cur, run, owner, popped, delivered>>
  /\ UNCHANGED <<life_vars, exec_vars>>

\* Mutant: the worker returns without unlocking the queue.
WorkerExit_KeepLock(w) ==
  /\ pc[w] = "loop"
  /\ lock = w
  /\ stop[w] # 0
  /\ pp_task_queue_deregister_worker
  /\ lock' = lock
  /\ in' = [in EXCEPT ![w] = NoTask]
  /\ pc' = [pc EXCEPT ![w] = "exited"]
  /\ interrupted' = [interrupted EXCEPT ![w] = FALSE]
  /\ UNCHANGED <<queue_vars, stop, cur, run, owner, popped, delivered>>
  /\ UNCHANGED <<life_vars, exec_vars>>

\* lines 125, 169-175: stop seen at the loop head: deregister, unlock, return
WorkerExit(w) ==
  /\ pc[w] = "loop"
  /\ lock = w
  /\ stop[w] # 0
  /\ pp_task_queue_deregister_worker
  /\ lock' = 0
  /\ in' = [in EXCEPT ![w] = NoTask]
  /\ pc' = [pc EXCEPT ![w] = "exited"]
  /\ interrupted' = [interrupted EXCEPT ![w] = FALSE]
  /\ UNCHANGED <<queue_vars, stop, cur, run, owner, popped, delivered>>
  /\ UNCHANGED <<life_vars, exec_vars>>

\* lines 222-226: pp_worker_stop, called by the supervisor at any moment
\* (every worker of the model has its thread: PP_WORKER_INIT_THREAD is set)
pp_worker_stop(w) ==
  /\ ThreadCreated(w)
  /\ stop[w] = 0
  /\ stop' = [stop EXCEPT ![w] = 1]
  /\ interrupted' = [interrupted EXCEPT ![w] = (pc[w] = "exec")]
  /\ UNCHANGED <<queue_vars, worker_count, lock, pc, in, cur, run, owner, popped,
                 delivered>>
  /\ UNCHANGED <<life_vars, exec_vars>>

\* ------------------------------------------------------------ supervisor
Enqueue(type, itemid) ==
  /\ lock = 0
  /\ Cardinality(Enqueued) < MaxTasks
  /\ pp_task_queue_push(type, itemid)
  /\ UNCHANGED <<in_progress, finished, worker_count, lock, pc, stop, in, cur,
                 delivered, interrupted>>
  /\ UNCHANGED <<life_vars, exec_vars>>

\* the same hand-over, for a supervisor that lets the backlog grow by one more
EnqueueBacklog(type, itemid) ==
  /\ lock = 0
  /\ Cardinality(Enqueued) < MaxBacklog
  /\ pp_task_queue_push(type, itemid)
  /\ UNCHANGED <<in_progress, finished, worker_count, lock, pc, stop, in, cur,
                 delivered, interrupted>>
  /\ UNCHANGED <<life_vars, exec_vars>>

FetchFinished ==
  /\ lock = 0
  /\ finished # <<>>
  /\ pp_task_queue_fetch_finished
  /\ UNCHANGED <<tasks, pending, in_progress, sequences, worker_count, lock, pc,
                 stop, in, cur, run, owner, popped, interrupted>>
  /\ UNCHANGED <<life_vars, exec_vars>>

\* lines 193-215: pp_worker_init; err is what pthread_create returns.  On
\* failure ret stays FAIL and pp_worker_stop is called, which does nothing as
\* PP_WORKER_INIT_THREAD is not set; the function returns err.
pp_worker_init(w, err) ==
  /\ init_ret[w] = <<>>
  /\ IF err = 0
     THEN /\ pc' = [pc EXCEPT ![w] = "start"]
          /\ init_flags' = [init_flags EXCEPT ![w] = PP_WORKER_INIT_THREAD]
     ELSE UNCHANGED <<pc, init_flags>>
  /\ init_ret' = [init_ret EXCEPT ![w] = <<err>>]
  /\ UNCHANGED <<queue_vars, worker_count, lock, stop, in, cur, hist_vars,
                 stop_called, timekeeper, exec_vars,
                 poller_config, widget>>

\* shutdown (section 4.4), first half: pp_worker_stop (lines 222-226) is
\* called once on each worker, at any moment after its pp_worker_init returned
Shutdown(w) ==
  /\ init_ret[w] # <<>>
  /\ ~stop_called[w]
  /\ stop_called' = [stop_called EXCEPT ![w] = TRUE]
  /\ stop' = IF ThreadCreated(w) THEN [stop EXCEPT ![w] = 1] ELSE stop
  /\ interrupted' = [interrupted EXCEPT ![w] = (pc[w] = "exec")]
  /\ UNCHANGED <<queue_vars, worker_count, lock, pc, in, cur, run, owner, popped,
                 delivered, init_flags, init_ret, timekeeper, exec_vars,
                 poller_config, widget>>

\* shutdown, second half: pp_worker_destroy (lines 233-245) once every worker
\* was told to stop; pthread_join returns when the thread has returned
pp_worker_destroy(w) ==
  /\ \A v \in Workers : stop_called[v]
  /\ ThreadCreated(w)
  /\ pc[w] = "exited"
  /\ init_flags' = [init_flags EXCEPT ![w] = PP_WORKER_INIT_NONE]
  /\ UNCHANGED <<queue_vars, worker_count, lock, pc, stop, in, cur, hist_vars,
                 init_ret, stop_called, timekeeper, exec_vars,
                 poller_config, widget>>

\* the supervisor hands over a task with its payload: <<type, itemid,
\* payload>>; a DEPENDENT refers to a primary that fetch_finished has returned
EnqueueData(type, itemid, d) ==
  /\ lock = 0
  /\ Cardinality(Enqueued) < MaxDataTasks
  /\ pp_task_queue_push(type, itemid)
  /\ data' = ((Len(tasks) + 1) :> d) @@ data
  /\ UNCHANGED <<in_progress, finished, worker_count, lock, pc, stop, in, cur,
                 delivered, interrupted, life_vars, cache, result, results,
                 cache_log>>

\* Mutant: the supervisor releases a fetched task although a DEPENDENT still
\* refers to it.
ReleaseStorage_IgnoreReferences(t) ==
  /\ lock = 0
  /\ t \in DOMAIN data
  /\ InSeq(delivered, t)
  /\ data' = [x \in DOMAIN data \ {t} |-> data[x]]
  /\ UNCHANGED <<queue_vars, worker_count, lock, pc, stop, in, cur, hist_vars,
                 life_vars, cache, result, results, cache_log>>

\* the supervisor releases the storage (input value and step list) of a task
\* that fetch_finished has returned; a DEPENDENT whose own storage is not yet
\* released holds a strong reference to its primary, which keeps it alive
ReleaseStorage(t) ==
  /\ lock = 0
  /\ t \in DOMAIN data
  /\ InSeq(delivered, t)
  /\ \A d \in DOMAIN data : data[d].primary # t
  /\ data' = [x \in DOMAIN data \ {t} |-> data[x]]
  /\ UNCHANGED <<queue_vars, worker_count, lock, pc, stop, in, cur, hist_vars,
                 life_vars, cache, result, results, cache_log>>

\* the switch of pp_worker_entry (lines 136-151) applied to one task outside
\* the queue; a DEPENDENT is run once its primary has been
ExecRun(t) ==
  /\ run[t] = "new"
  /\ tasks[t].type = ZBX_PP_TASK_DEPENDENT => run[data[t].primary] = "finished"
  /\ pp_task_process(t)
  /\ run' = [run EXCEPT ![t] = "finished"]
  /\ UNCHANGED <<queue_vars, worker_count, lock, pc, stop, in, cur, owner, popped,
                 delivered, interrupted, life_vars, data>>

\* ----------------------------------- the condition variable C (section 4.1)
\* In the actions above a wait may return at any moment (event or timeout).
\* The actions below leave the timeout out and follow the event alone: a
\* worker blocked in wait ("wait") returns only after a signal has picked it
\* ("woken"), and then still has to get M back.
Waiters(p) == {w \in Workers : p[w] = "wait"}

\* signal C: one of the workers blocked on C, if there is any, is woken
Signal(p) ==
  IF Waiters(p) = {} THEN {p}
  ELSE {[p EXCEPT ![w] = "woken"] : w \in Waiters(p)}

\* Mutant: enqueue appends without signalling C.
EnqueueSignal_Silent(type, itemid) ==
  /\ lock = 0
  /\ Cardinality(Enqueued) < MaxTasks
  /\ pp_task_queue_push(type, itemid)
  /\ UNCHANGED <<in_progress, finished, worker_count, lock, pc, stop, in, cur,
                 delivered, interrupted>>
  /\ UNCHANGED <<life_vars, exec_vars>>

\* enqueue(task) with its signal: C is signalled when the task (or its fresh
\* SEQUENCE) was appended to pending, not when a VALUE_SEQ joined a SEQUENCE
EnqueueSignal(type, itemid) ==
  /\ lock = 0
  /\ Cardinality(Enqueued) < MaxTasks
  /\ pp_task_queue_push(type, itemid)
  /\ pc' \in (IF pending' # pending THEN Signal(pc) ELSE {pc})
  /\ UNCHANGED <<in_progress, finished, worker_count, lock, stop, in, cur,
                 delivered, interrupted>>
  /\ UNCHANGED <<life_vars, exec_vars>>

\* lines 153-158 with the signal of push_finished: C is signalled when the
\* SEQUENCE went back to pending
WorkerPushFinishedSignal(w) ==
  /\ pc[w] = "exec"
  /\ lock = 0
  /\ lock' = w
  /\ pp_task_queue_push_finished(in[w], cur[w])
  /\ cur' = [cur EXCEPT ![w] = NoTask]
  /\ pc' \in (IF pending' # pending
               THEN Signal([pc EXCEPT ![w] = "loop"])
               ELSE {[pc EXCEPT ![w] = "loop"]})
  /\ UNCHANGED <<worker_count, stop, in, owner, delivered, interrupted>>
  /\ pp_task_process(cur[w])
  /\ UNCHANGED <<life_vars, data>>

\* line 161: the wait returns SUCCEED to a worker that was signalled, with M
\* held again
WorkerWoken(w) ==
  /\ pc[w] = "woken"
  /\ lock = 0
  /\ lock' = w
  /\ pc' = [pc EXCEPT ![w] = "loop"]
  /\ UNCHANGED <<queue_vars, worker_count, stop, in, cur, hist_vars>>
  /\ UNCHANGED <<life_vars, exec_vars>>

\* ------------------------------------------- the timekeeper (lines 131, 153)
\* The actions above leave the timekeeper out and take lines 131-156 in one
\* step. The actions below follow the two updates of the worker's slot,
\* worker->id - 1: "exec" M released with the popped task in hand, "busy"
\* slot marked BUSY, "done" pipeline run and slot marked IDLE.
Slot(w) == w - 1

\* line 131
WorkerBusy(w) ==
  /\ pc[w] = "exec"
  /\ timekeeper' = [timekeeper EXCEPT ![Slot(w)] = ZBX_PROCESS_STATE_BUSY]
  /\ pc' = [pc EXCEPT ![w] = "busy"]
  /\ UNCHANGED <<queue_vars, worker_count, lock, stop, in, cur, hist_vars,
                 init_flags, init_ret, stop_called, exec_vars, poller_config,
                 widget>>

\* Mutant: the slot is left BUSY after the task.
WorkerProcess_StaysBusy(w) ==
  /\ pc[w] = "busy"
  /\ pp_task_process(cur[w])
  /\ pc' = [pc EXCEPT ![w] = "done"]
  /\ UNCHANGED <<queue_vars, worker_count, lock, stop, in, cur, hist_vars,
                 life_vars, data>>

\* lines 136-153: the switch on the task type, then the slot goes back to IDLE
WorkerProcess(w) ==
  /\ pc[w] = "busy"
  /\ pp_task_process(cur[w])
  /\ timekeeper' = [timekeeper EXCEPT ![Slot(w)] = ZBX_PROCESS_STATE_IDLE]
  /\ pc' = [pc EXCEPT ![w] = "done"]
  /\ UNCHANGED <<queue_vars, worker_count, lock, stop, in, cur, hist_vars,
                 init_flags, init_ret, stop_called, data, poller_config,
                 widget>>

\* lines 155-158: lock, push_finished, back to the loop head
WorkerReturn(w) ==
  /\ pc[w] = "done"
  /\ lock = 0
  /\ lock' = w
  /\ pp_task_queue_push_finished(in[w], cur[w])
  /\ cur' = [cur EXCEPT ![w] = NoTask]
  /\ pc' = [pc EXCEPT ![w] = "loop"]
  /\ UNCHANGED <<worker_count, stop, in, owner, delivered, interrupted>>
  /\ UNCHANGED <<life_vars, exec_vars>>

\* ------------------------------------------------ async poller (poller.c)
\* One poller process: a libevent loop that runs the async_check_items timer
\* and the result callbacks of the checks in flight, and between two rounds
\* of the loop requeues the items that have a result and reads one runtime
\* control command. poller_config holds the fields of zbx_poller_config_t the
\* callbacks share, and with them what the process has outside the struct:
\*   running      ZBX_IS_RUNNING(), until ZBX_RTC_SHUTDOWN ends the loop
\*   contexts     items whose async check was started and has not called back
\*   lost         items of an HTTP check whose callback could not recover its
\*                context (line 165-171)
\*   snmp_cleared whether the latest step called zbx_clear_cache_snmp
\* The counters of the process title (queued, processed) and the interface
\* availability table are left out.
ZBX_POLLER_TYPE_AGENT     == "AGENT"
ZBX_POLLER_TYPE_HTTPAGENT == "HTTPAGENT"
ZBX_POLLER_TYPE_SNMP      == "SNMP"

ZBX_RTC_SHUTDOWN          == "SHUTDOWN"
ZBX_RTC_SNMP_CACHE_RELOAD == "SNMP_CACHE_RELOAD"

PollerTypes == {ZBX_POLLER_TYPE_AGENT, ZBX_POLLER_TYPE_HTTPAGENT,
                ZBX_POLLER_TYPE_SNMP}
PolledItems == 1..MaxPolled

\* the poller's part of the thread arguments: its type and
\* config_max_concurrent_checks_per_poller
PollerArgs == PollerTypes \X (1..MaxPolled)

\* everything but the poller
pp_vars == <<server_vars, widget>>

\* lines 433-473, with the initializer of line 555
async_poller_init_args(poller_type, max_concurrent) ==
  [poller_type  |-> poller_type,
   config_max_concurrent_checks_per_poller |-> max_concurrent,
   clear_cache  |-> 0,
   processing   |-> 0,
   itemids      |-> {},
   running      |-> TRUE,
   contexts     |-> {},
   lost         |-> {},
   snmp_cleared |-> FALSE]

async_poller_init(poller_type) == async_poller_init_args(poller_type, MaxPolled)

\* items the configuration cache can hand out: those the poller does not hold
PollerQueue ==
  PolledItems \ (poller_config.contexts \cup poller_config.itemids
                 \cup poller_config.lost)

\* zbx_dc_config_get_poller_items (line 318): some items of the poller queue,
\* no more than the concurrency limit leaves room for
PollerBatches ==
  {b \in SUBSET PollerQueue :
     Cardinality(b) + poller_config.processing
       <= poller_config.config_max_concurrent_checks_per_poller}

async_check_items_ClearBusy(items, started) ==
  /\ poller_config.running
  /\ items \in PollerBatches
  /\ started \subseteq items
  /\ poller_config' =
       [poller_config EXCEPT
          !.clear_cache = 0,
          !.snmp_cleared = (poller_config.clear_cache = 1),
          !.contexts = @ \cup started,
          !.processing = @ + Cardinality(started),
          !.itemids = @ \cup (items \ started)]
  /\ UNCHANGED pp_vars

\* async_check_items (lines 287-404), the timer callback. items is what the
\* configuration cache hands out, started the items whose check was set up
\* and started (errcodes[i] stays SUCCEED, line 365); the others get their
\* error result at once (lines 372-387)
async_check_items(items, started) ==
  /\ poller_config.running
  /\ IF poller_config.clear_cache = 1 /\ poller_config.processing # 0
     THEN \* lines 303-307: num = 0; goto exit
          /\ items = {} /\ started = {}
          /\ poller_config' = [poller_config EXCEPT !.snmp_cleared = FALSE]
     ELSE /\ items \in PollerBatches
          /\ started \subseteq items
          /\ poller_config' =
               [poller_config EXCEPT
                  \* lines 310-313
                  !.clear_cache = 0,
                  !.snmp_cleared = (poller_config.clear_cache = 1),
                  \* lines 329-367
                  !.contexts = @ \cup started,
                  !.processing = @ + Cardinality(started),
                  \* lines 372-387
                  !.itemids = @ \cup (items \ started)]
  /\ UNCHANGED pp_vars

\* process_async_result (lines 59-125), reached from process_agent_result and
\* process_snmp_result: the check of item i calls back with its result
process_async_result(i) ==
  /\ poller_config.poller_type # ZBX_POLLER_TYPE_HTTPAGENT
  /\ i \in poller_config.contexts
  /\ poller_config' =
       [poller_config EXCEPT
          !.contexts = @ \ {i},
          !.itemids = @ \cup {i},
          !.processing = @ - 1,
          !.snmp_cleared = FALSE]
  /\ UNCHANGED pp_vars

\* process_httpagent_result (lines 149-217): the transfer of item i is over.
\* got_context is whether curl_easy_getinfo returned the private pointer; when
\* it did not, the callback leaves at line 170 before it counts the result
process_httpagent_result(i, got_context) ==
  /\ poller_config.poller_type = ZBX_POLLER_TYPE_HTTPAGENT
  /\ i \in poller_config.contexts
  /\ poller_config' =
       IF got_context
       THEN [poller_config EXCEPT
               !.contexts = @ \ {i},
               !.itemids = @ \cup {i},
               !.processing = @ - 1,
               !.snmp_cleared = FALSE]
       ELSE [poller_config EXCEPT
               !.contexts = @ \ {i},
               !.lost = @ \cup {i},
               !.snmp_cleared = FALSE]
  /\ UNCHANGED pp_vars

\* poller_requeue_items (lines 406-425), after every round of the event loop
\* (line 616): the items with a result go back to the poller queue
poller_requeue_items ==
  /\ poller_config.running
  /\ poller_config.itemids # {}
  /\ poller_config' = [poller_config EXCEPT !.itemids = {},
                                            !.snmp_cleared = FALSE]
  /\ UNCHANGED pp_vars

\* lines 631-642: a runtime control command has arrived
zbx_rtc_wait(rtc_cmd) ==
  /\ poller_config.running
  /\ poller_config' =
       IF rtc_cmd = ZBX_RTC_SHUTDOWN
       THEN [poller_config EXCEPT !.running = FALSE, !.snmp_cleared = FALSE]
       ELSE IF /\ rtc_cmd = ZBX_RTC_SNMP_CACHE_RELOAD
               /\ poller_config.poller_type = ZBX_POLLER_TYPE_SNMP
            THEN [poller_config EXCEPT !.clear_cache = 1,
                                       !.snmp_cleared = FALSE]
            ELSE [poller_config EXCEPT !.snmp_cleared = FALSE]
  /\ UNCHANGED pp_vars

\* --------------------------------- dashboard widget (class.widget-base.js)
\* One widget object. Its methods run to completion on the one thread of the
\* page, so each call, each timer callback and each settling of an update
\* promise is one step. widget holds the fields of `this` that the life cycle
\* and the update cycle read or write, and with them:
\*   timeout_once  do_update_once in the closure of the armed timeout
\*   interacting   what isUserInteracting() answers (lines 513-516)
\*   requests      do_update_once of every promiseUpdate() not yet settled
\*   call, path    the handler that ran last and the values _state took in it
\*   thrown        the message of the Error that handler threw, or ""
\* The view, the preloader and the events the widget fires are left out.
WIDGET_STATE_INITIAL   == "initial"
WIDGET_STATE_ACTIVE    == "active"
WIDGET_STATE_INACTIVE  == "inactive"
WIDGET_STATE_DESTROYED == "destroyed"

null == "null"

\* refresh rates the widget is given: no refresh, or 10 seconds
RfRates == {0, 10}

\* constructor and _init (lines 140-226)
_init(rf_rate, is_edit_mode) ==
  [_state                   |-> WIDGET_STATE_INITIAL,
   _rf_rate                 |-> rf_rate,
   _is_edit_mode            |-> is_edit_mode,
   _update_timeout_id       |-> null,
   _update_interval_id      |-> null,
   _update_abort_controller |-> null,
   _is_updating_paused      |-> FALSE,
   _update_retry_sec        |-> 3,
   timeout_once             |-> FALSE,
   interacting              |-> FALSE,
   requests                 |-> <<>>,
   call                     |-> "constructor",
   path                     |-> <<WIDGET_STATE_INITIAL>>,
   thrown                   |-> ""]

\* a handler is entered, an assignment to this._state, a throw
Called(w, name) ==
  [w EXCEPT !.call = name, !.path = <<w._state>>, !.thrown = ""]

SetState(w, state) ==
  [w EXCEPT !._state = state, !.path = Append(@, state)]

Throw(w, message) == [w EXCEPT !.thrown = message]

\* _stopUpdating (lines 889-903)
_stopUpdating(w, do_abort) ==
  [w EXCEPT
     !._update_timeout_id = null,
     !.timeout_once = FALSE,
     !._update_interval_id = null,
     !._update_abort_controller =
        IF do_abort /\ @ # null THEN "aborted" ELSE @]

RECURSIVE _startUpdating(_, _, _), _update(_, _)

\* _update (lines 924-962) up to the point where the promise is created; what
\* follows the promise is promiseUpdate_settled
_update(w, do_update_once) ==
  IF \/ w._update_abort_controller # null
     \/ w._is_updating_paused
     \/ w.interacting
  THEN _startUpdating(w, 1, do_update_once)
  ELSE [w EXCEPT !._update_abort_controller = "live",
                 !.requests = Append(@, do_update_once)]

\* _startUpdating (lines 860-882), do_update_once given
_startUpdating(w, delay_sec, do_update_once) ==
  LET s == _stopUpdating(w, FALSE) IN
    IF delay_sec > 0
    THEN [s EXCEPT !._update_timeout_id = "timeout",
                   !.timeout_once = do_update_once]
    ELSE _update(IF ~do_update_once /\ s._rf_rate > 0
                 THEN [s EXCEPT !._update_interval_id = "interval"]
                 ELSE s,
                 do_update_once)

\* _startUpdating() as the widget calls it on itself: no delay, and
\* do_update_once is this._is_edit_mode (lines 861-863)
StartUpdatingNow(w) == _startUpdating(w, 0, w._is_edit_mode)

Deactivated_KeepUpdating(w) == SetState(w, WIDGET_STATE_INACTIVE)

\* deactivate past its state test (lines 303-313)
Deactivated(w) == _stopUpdating(SetState(w, WIDGET_STATE_INACTIVE), TRUE)

\* start (lines 249-265)
start ==
  /\ widget' =
       LET w == Called(widget, "start") IN
         IF w._state # WIDGET_STATE_INITIAL
         THEN Throw(w, "Unsupported state change.")
         ELSE SetState(w, WIDGET_STATE_INACTIVE)
  /\ UNCHANGED <<server_vars, poller_config>>

\* activate (lines 276-287)
activate ==
  /\ widget' =
       LET w == Called(widget, "activate") IN
         IF w._state # WIDGET_STATE_INACTIVE
         THEN Throw(w, "Unsupported state change.")
         ELSE StartUpdatingNow(SetState(w, WIDGET_STATE_ACTIVE))
  /\ UNCHANGED <<server_vars, poller_config>>

\* deactivate (lines 298-314)
deactivate ==
  /\ widget' =
       LET w == Called(widget, "deactivate") IN
         IF w._state # WIDGET_STATE_ACTIVE
         THEN Throw(w, "Unsupported state change.")
         ELSE Deactivated(w)
  /\ UNCHANGED <<server_vars, poller_config>>

destroy_Unchecked ==
  /\ widget' =
       LET w == Called(widget, "destroy")
           d == IF w._state = WIDGET_STATE_ACTIVE THEN Deactivated(w) ELSE w
       IN  SetState(d, WIDGET_STATE_DESTROYED)
  /\ UNCHANGED <<server_vars, poller_config>>

\* destroy (lines 327-339): the deactivate() of line 329 passes its own state
\* test, line 328 has just made it
destroy ==
  /\ widget' =
       LET w == Called(widget, "destroy")
           d == IF w._state = WIDGET_STATE_ACTIVE THEN Deactivated(w) ELSE w
       IN  IF d._state # WIDGET_STATE_INACTIVE
           THEN Throw(d, "Unsupported state change.")
           ELSE SetState(d, WIDGET_STATE_DESTROYED)
  /\ UNCHANGED <<server_vars, poller_config>>

\* setEditMode (lines 361-371)
setEditMode ==
  /\ widget' =
       LET w == [Called(widget, "setEditMode") EXCEPT !._is_edit_mode = TRUE] IN
         IF w._state = WIDGET_STATE_ACTIVE THEN _stopUpdating(w, FALSE) ELSE w
  /\ UNCHANGED <<server_vars, poller_config>>

\* setDynamicHost (lines 404-410); updateProperties (lines 668-684) does the
\* same to the update cycle
setDynamicHost ==
  /\ widget' =
       LET w == Called(widget, "setDynamicHost") IN
         IF w._state = WIDGET_STATE_ACTIVE THEN StartUpdatingNow(w) ELSE w
  /\ UNCHANGED <<server_vars, poller_config>>

\* the click on a refresh rate of the widget menu (lines 831-842), with
\* _setRfRate (lines 700-701)
clickCallback(rf_rate) ==
  /\ widget' =
       LET w == [Called(widget, "clickCallback") EXCEPT !._rf_rate = rf_rate] IN
         IF w._state = WIDGET_STATE_ACTIVE
         THEN IF w._rf_rate > 0 THEN StartUpdatingNow(w)
                                ELSE _stopUpdating(w, TRUE)
         ELSE w
  /\ UNCHANGED <<server_vars, poller_config>>

\* _pauseUpdating (lines 908-910)
_pauseUpdating ==
  /\ widget' = [Called(widget, "_pauseUpdating") EXCEPT
                  !._is_updating_paused = TRUE]
  /\ UNCHANGED <<server_vars, poller_config>>

\* _resumeUpdating (lines 915-917)
_resumeUpdating ==
  /\ widget' = [Called(widget, "_resumeUpdating") EXCEPT
                  !._is_updating_paused = FALSE]
  /\ UNCHANGED <<server_vars, poller_config>>

\* the user opens or closes a menu or a hint of a displayed widget: what
\* isUserInteracting() (lines 513-516) looks for
UserInteracts(open) ==
  /\ widget._state = WIDGET_STATE_ACTIVE
  /\ widget.interacting # open
  /\ widget' = [Called(widget, "isUserInteracting") EXCEPT !.interacting = open]
  /\ UNCHANGED <<server_vars, poller_config>>

\* the timeout of lines 868-871 fires
UpdateTimeout ==
  /\ widget._update_timeout_id # null
  /\ widget' =
       LET w == [Called(widget, "timeout") EXCEPT !._update_timeout_id = null,
                                                  !.timeout_once = FALSE]
       IN  _startUpdating(w, 0, widget.timeout_once)
  /\ UNCHANGED <<server_vars, poller_config>>

\* the interval of lines 875-877 fires; it is armed only where do_update_once
\* is false (line 874)
UpdateInterval ==
  /\ widget._update_interval_id # null
  /\ widget' = _update(Called(widget, "interval"), FALSE)
  /\ UNCHANGED <<server_vars, poller_config>>

\* lines 945-961: the promise of request k settles. then() only hides the
\* preloader; catch() retries unless the controller was aborted; finally()
\* drops the controller. Reading .signal of a null controller throws inside
\* catch(), and finally() runs all the same
promiseUpdate_settled(k, rejected) ==
  /\ k \in 1..Len(widget.requests)
  /\ widget' =
       LET w == Called(widget, "promiseUpdate")
           c == IF /\ rejected
                   /\ w._update_abort_controller = "live"
                THEN _startUpdating(w, w._update_retry_sec, w.requests[k])
                ELSE w
       IN  [c EXCEPT !._update_abort_controller = null,
                     !.requests = [i \in 1..(Len(@) - 1) |->
                                     IF i < k THEN @[i] ELSE @[i + 1]]]
  /\ UNCHANGED <<server_vars, poller_config>>

\* --------------------------------------------------------- specification
Init ==
  /\ tasks = <<>>
  /\ pending = <<>>
  /\ in_progress = {}
  /\ finished = <<>>
  /\ sequences = [k \in ItemIds |-> NoTask]
  /\ worker_count = 0
  /\ lock = 0
  /\ pc = [w \in Workers |-> "start"]
  /\ stop = [w \in Workers |-> 0]
  /\ in = [w \in Workers |-> NoTask]
  /\ cur = [w \in Workers |-> NoTask]
  /\ run = <<>>
  /\ owner = <<>>
  /\ popped = <<>>
  /\ delivered = <<>>
  /\ interrupted = [w \in Workers |-> FALSE]
  /\ init_flags = [w \in Workers |-> PP_WORKER_INIT_THREAD]
  /\ init_ret = [w \in Workers |-> <<SUCCEED>>]
  /\ stop_called = [w \in Workers |-> FALSE]
  /\ timekeeper = [s \in Slots |-> ZBX_PROCESS_STATE_IDLE]
  /\ widget = _init(0, FALSE)
  /\ poller_config = async_poller_init(ZBX_POLLER_TYPE_SNMP)
  /\ data = <<>>
  /\ cache = [k \in ItemIds |-> NoEntry]
  /\ result = <<>>
  /\ results = <<>>
  /\ cache_log = <<>>

Next ==
  \/ \E e \in EnqueueInputs : Enqueue(e[1], e[2])
  \/ FetchFinished
  \/ \E w \in Workers : pp_worker_stop(w)
  \/ \E w \in Workers : WorkerStart(w)
  \/ \E w \in Workers : WorkerPop(w)
  \/ \E w \in Workers : WorkerWait(w)
  \/ \E w \in Workers, ok \in BOOLEAN : WorkerWake(w, ok)
  \/ \E w \in Workers : WorkerPushFinished(w)
  \/ \E w \in Workers : WorkerExit(w)

Spec == Init /\ [][Next]_vars

\* No worker is stopped and no wait fails; every worker and the supervisor's
\* fetch_finished are scheduled fairly (strongly: each of them contends for M).
NextLive ==
  \/ \E e \in EnqueueInputs : Enqueue(e[1], e[2])
  \/ FetchFinished
  \/ \E w \in Workers : WorkerStart(w)
  \/ \E w \in Workers : WorkerPop(w)
  \/ \E w \in Workers : WorkerWait(w)
  \/ \E w \in Workers : WorkerWake(w, TRUE)
  \/ \E w \in Workers : WorkerPushFinished(w)

Fairness ==
  /\ SF_vars(FetchFinished)
  /\ \A w \in Workers :
       /\ SF_vars(WorkerStart(w))
       /\ SF_vars(WorkerPop(w))
       /\ SF_vars(WorkerWait(w))
       /\ SF_vars(WorkerWake(w, TRUE))
       /\ SF_vars(WorkerPushFinished(w))

SpecLive == Init /\ [][NextLive]_vars /\ Fairness

\* The supervisor never calls pp_worker_stop: a stop flag is only ever set by
\* the worker itself, after a wait that failed (line 165).
NextFail ==
  \/ \E e \in EnqueueInputs : Enqueue(e[1], e[2])
  \/ FetchFinished
  \/ \E w \in Workers : WorkerStart(w)
  \/ \E w \in Workers : WorkerPop(w)
  \/ \E w \in Workers : WorkerWait(w)
  \/ \E w \in Workers, ok \in BOOLEAN : WorkerWake(w, ok)
  \/ \E w \in Workers : WorkerPushFinished(w)
  \/ \E w \in Workers : WorkerExit(w)

SpecFail == Init /\ [][NextFail]_vars

\* The queue at work, with room for one task more than in Spec: no worker is
\* stopped and no wait fails (no scheduling assumption).
QueueInputs ==
  {<<ZBX_PP_TASK_TEST, 1>>, <<ZBX_PP_TASK_VALUE, 2>>, <<ZBX_PP_TASK_DEPENDENT, 2>>,
   <<ZBX_PP_TASK_VALUE_SEQ, 1>>}

NextQueue ==
  \/ \E e \in QueueInputs : EnqueueBacklog(e[1], e[2])
  \/ FetchFinished
  \/ \E w \in Workers : WorkerStart(w)
  \/ \E w \in Workers : WorkerPop(w)
  \/ \E w \in Workers : WorkerWait(w)
  \/ \E w \in Workers : WorkerWake(w, TRUE)
  \/ \E w \in Workers : WorkerPushFinished(w)

SpecQueue == Init /\ [][NextQueue]_vars

\* Waits end by signals only; every worker step is scheduled fairly (strongly
\* where it has to get M, for which it contends with the others and with the
\* supervisor; weakly where it holds M).
CondInputs ==
  {<<ZBX_PP_TASK_VALUE, 2>>, <<ZBX_PP_TASK_VALUE_SEQ, 1>>}

NextCond ==
  \/ \E e \in CondInputs : EnqueueSignal(e[1], e[2])
  \/ FetchFinished
  \/ \E w \in Workers : WorkerStart(w)
  \/ \E w \in Workers : WorkerPop(w)
  \/ \E w \in Workers : WorkerWait(w)
  \/ \E w \in Workers : WorkerWoken(w)
  \/ \E w \in Workers : WorkerPushFinishedSignal(w)

FairnessCond ==
  \A w \in Workers :
    /\ SF_vars(WorkerStart(w))
    /\ WF_vars(WorkerPop(w))
    /\ WF_vars(WorkerWait(w))
    /\ SF_vars(WorkerWoken(w))
    /\ SF_vars(WorkerPushFinishedSignal(w))

SpecCond == Init /\ [][NextCond]_vars /\ FairnessCond

\* The async poller alone: the preprocessing workers are not started. A
\* poller of any type, with any concurrency limit.
InitPoller ==
  /\ tasks = <<>>
  /\ pending = <<>>
  /\ in_progress = {}
  /\ finished = <<>>
  /\ sequences = [k \in ItemIds |-> NoTask]
  /\ worker_count = 0
  /\ lock = 0
  /\ pc = [w \in Workers |-> "start"]
  /\ stop = [w \in Workers |-> 0]
  /\ in = [w \in Workers |-> NoTask]
  /\ cur = [w \in Workers |-> NoTask]
  /\ run = <<>>
  /\ owner = <<>>
  /\ popped = <<>>
  /\ delivered = <<>>
  /\ interrupted = [w \in Workers |-> FALSE]
  /\ init_flags = [w \in Workers |-> PP_WORKER_INIT_THREAD]
  /\ init_ret = [w \in Workers |-> <<SUCCEED>>]
  /\ stop_called = [w \in Workers |-> FALSE]
  /\ timekeeper = [s \in Slots |-> ZBX_PROCESS_STATE_IDLE]
  /\ widget = _init(0, FALSE)
  /\ data = <<>>
  /\ cache = [k \in ItemIds |-> NoEntry]
  /\ result = <<>>
  /\ results = <<>>
  /\ cache_log = <<>>
  /\ \E a \in PollerArgs : poller_config = async_poller_init_args(a[1], a[2])
  /\ widget = _init(0, FALSE)

NextPoller ==
  \/ \E items \in SUBSET PolledItems :
       \E started \in SUBSET items : async_check_items(items, started)
  \/ \E i \in PolledItems : process_async_result(i)
  \/ \E i \in PolledItems :
       \E got_context \in BOOLEAN : process_httpagent_result(i, got_context)
  \/ poller_requeue_items
  \/ \E rtc_cmd \in {ZBX_RTC_SHUTDOWN, ZBX_RTC_SNMP_CACHE_RELOAD} :
       zbx_rtc_wait(rtc_cmd)

SpecPoller == InitPoller /\ [][NextPoller]_vars

\* The widget alone: created with any refresh rate, in view or edit mode,
\* then driven by its dashboard page, the user, its timers and its requests.
InitWidget ==
  /\ tasks = <<>>
  /\ pending = <<>>
  /\ in_progress = {}
  /\ finished = <<>>
  /\ sequences = [k \in ItemIds |-> NoTask]
  /\ worker_count = 0
  /\ lock = 0
  /\ pc = [w \in Workers |-> "start"]
  /\ stop = [w \in Workers |-> 0]
  /\ in = [w \in Workers |-> NoTask]
  /\ cur = [w \in Workers |-> NoTask]
  /\ run = <<>>
  /\ owner = <<>>
  /\ popped = <<>>
  /\ delivered = <<>>
  /\ interrupted = [w \in Workers |-> FALSE]
  /\ init_flags = [w \in Workers |-> PP_WORKER_INIT_THREAD]
  /\ init_ret = [w \in Workers |-> <<SUCCEED>>]
  /\ stop_called = [w \in Workers |-> FALSE]
  /\ timekeeper = [s \in Slots |-> ZBX_PROCESS_STATE_IDLE]
  /\ poller_config = async_poller_init(ZBX_POLLER_TYPE_SNMP)
  /\ data = <<>>
  /\ cache = [k \in ItemIds |-> NoEntry]
  /\ result = <<>>
  /\ results = <<>>
  /\ cache_log = <<>>
  /\ \E rf_rate \in RfRates :
       \E is_edit_mode \in BOOLEAN : widget = _init(rf_rate, is_edit_mode)

NextWidget ==
  \/ start
  \/ activate
  \/ deactivate
  \/ destroy
  \/ setEditMode
  \/ setDynamicHost
  \/ \E rf_rate \in RfRates : clickCallback(rf_rate)
  \/ _pauseUpdating
  \/ _resumeUpdating
  \/ \E open \in BOOLEAN : UserInteracts(open)
  \/ UpdateTimeout
  \/ UpdateInterval
  \/ \E k \in 1..Len(widget.requests) :
       \E rejected \in BOOLEAN : promiseUpdate_settled(k, rejected)

SpecWidget == InitWidget /\ [][NextWidget]_vars

\* The timekeeper followed: what its slots hold before the workers report to
\* it is not known, any contents are taken.
InitTime ==
  /\ tasks = <<>>
  /\ pending = <<>>
  /\ in_progress = {}
  /\ finished = <<>>
  /\ sequences = [k \in ItemIds |-> NoTask]
  /\ worker_count = 0
  /\ lock = 0
  /\ pc = [w \in Workers |-> "start"]
  /\ stop = [w \in Workers |-> 0]
  /\ in = [w \in Workers |-> NoTask]
  /\ cur = [w \in Workers |-> NoTask]
  /\ run = <<>>
  /\ owner = <<>>
  /\ popped = <<>>
  /\ delivered = <<>>
  /\ interrupted = [w \in Workers |-> FALSE]
  /\ init_flags = [w \in Workers |-> PP_WORKER_INIT_THREAD]
  /\ init_ret = [w \in Workers |-> <<SUCCEED>>]
  /\ stop_called = [w \in Workers |-> FALSE]
  /\ timekeeper \in [Slots -> {ZBX_PROCESS_STATE_BUSY, ZBX_PROCESS_STATE_IDLE}]
  /\ widget = _init(0, FALSE)
  /\ poller_config = async_poller_init(ZBX_POLLER_TYPE_SNMP)
  /\ data = <<>>
  /\ cache = [k \in ItemIds |-> NoEntry]
  /\ result = <<>>
  /\ results = <<>>
  /\ cache_log = <<>>

NextTime ==
  \/ \E e \in CondInputs : Enqueue(e[1], e[2])
  \/ FetchFinished
  \/ \E w \in Workers : WorkerStart(w)
  \/ \E w \in Workers : WorkerPop(w)
  \/ \E w \in Workers : WorkerBusy(w)
  \/ \E w \in Workers : WorkerProcess(w)
  \/ \E w \in Workers : WorkerReturn(w)
  \/ \E w \in Workers : WorkerWait(w)
  \/ \E w \in Workers, ok \in BOOLEAN : WorkerWake(w, ok)
  \/ \E w \in Workers : WorkerExit(w)

SpecTime == InitTime /\ [][NextTime]_vars

\* Task-type misuse (section 7): a SEQUENCE whose internal queue is empty has
\* found its way into pending, with or without an entry in sequences.
MisusedSequence(itemid) == NewTask(ZBX_PP_TASK_SEQUENCE, itemid)

InitMisuse ==
  /\ \E k \in ItemIds :
       /\ tasks = <<MisusedSequence(k)>>
       /\ sequences \in {[i \in ItemIds |-> NoTask],
                          [i \in ItemIds |-> IF i = k THEN 1 ELSE NoTask]}
  /\ pending = <<1>>
  /\ in_progress = {}
  /\ finished = <<>>
  /\ worker_count = 0
  /\ lock = 0
  /\ pc = [w \in Workers |-> "start"]
  /\ stop = [w \in Workers |-> 0]
  /\ in = [w \in Workers |-> NoTask]
  /\ cur = [w \in Workers |-> NoTask]
  /\ run = <<"new">>
  /\ owner = <<NoTask>>
  /\ popped = << <<>> >>
  /\ delivered = <<>>
  /\ interrupted = [w \in Workers |-> FALSE]
  /\ init_flags = [w \in Workers |-> PP_WORKER_INIT_THREAD]
  /\ init_ret = [w \in Workers |-> <<SUCCEED>>]
  /\ stop_called = [w \in Workers |-> FALSE]
  /\ timekeeper = [s \in Slots |-> ZBX_PROCESS_STATE_IDLE]
  /\ widget = _init(0, FALSE)
  /\ poller_config = async_poller_init(ZBX_POLLER_TYPE_SNMP)
  /\ data = <<>>
  /\ cache = [k \in ItemIds |-> NoEntry]
  /\ result = <<>>
  /\ results = <<>>
  /\ cache_log = <<>>

SpecMisuse == InitMisuse /\ [][Next]_vars

\* ------------------------------------------- worker start-up and shutdown
\* No thread exists yet; the supervisor calls pp_worker_init for each worker,
\* later shuts the pool down.  No wait fails.
InitLife ==
  /\ tasks = <<>>
  /\ pending = <<>>
  /\ in_progress = {}
  /\ finished = <<>>
  /\ sequences = [k \in ItemIds |-> NoTask]
  /\ worker_count = 0
  /\ lock = 0
  /\ pc = [w \in Workers |-> "none"]
  /\ stop = [w \in Workers |-> 0]
  /\ in = [w \in Workers |-> NoTask]
  /\ cur = [w \in Workers |-> NoTask]
  /\ run = <<>>
  /\ owner = <<>>
  /\ popped = <<>>
  /\ delivered = <<>>
  /\ interrupted = [w \in Workers |-> FALSE]
  /\ init_flags = [w \in Workers |-> PP_WORKER_INIT_NONE]
  /\ init_ret = [w \in Workers |-> <<>>]
  /\ stop_called = [w \in Workers |-> FALSE]
  /\ timekeeper = [s \in Slots |-> ZBX_PROCESS_STATE_IDLE]
  /\ widget = _init(0, FALSE)
  /\ poller_config = async_poller_init(ZBX_POLLER_TYPE_SNMP)
  /\ data = <<>>
  /\ cache = [k \in ItemIds |-> NoEntry]
  /\ result = <<>>
  /\ results = <<>>
  /\ cache_log = <<>>

NextLife ==
  \/ \E w \in Workers, err \in {0, EAGAIN} : pp_worker_init(w, err)
  \/ \E w \in Workers : Shutdown(w)
  \/ \E w \in Workers : pp_worker_destroy(w)
  \/ \E e \in LifeInputs : Enqueue(e[1], e[2])
  \/ FetchFinished
  \/ \E w \in Workers : WorkerStart(w)
  \/ \E w \in Workers : WorkerPop(w)
  \/ \E w \in Workers : WorkerWait(w)
  \/ \E w \in Workers : WorkerWake(w, TRUE)
  \/ \E w \in Workers : WorkerPushFinished(w)
  \/ \E w \in Workers : WorkerExit(w)

\* every thread that exists is scheduled fairly, and so is the supervisor's
\* pp_worker_destroy
FairnessLife ==
  \A w \in Workers :
    /\ SF_vars(WorkerStart(w))
    /\ SF_vars(WorkerPop(w))
    /\ SF_vars(WorkerWait(w))
    /\ SF_vars(WorkerWake(w, TRUE))
    /\ SF_vars(WorkerPushFinished(w))
    /\ SF_vars(WorkerExit(w))
    /\ WF_vars(pp_worker_destroy(w))

SpecLife == InitLife /\ [][NextLife]_vars /\ FairnessLife

\* ------------------------------------------------ tasks with their payload
Payload(preproc, cacheref, v, ts, primary) ==
  [preproc |-> preproc, cache |-> cacheref, value |-> v, ts |-> ts,
   primary |-> primary]

\* a DEPENDENT has no steps and no input of its own
DependentPayload(cacheref, primary) == Payload(<<>>, cacheref, 0, 0, primary)

\* the VALUE tasks fetch_finished has returned: the primaries a DEPENDENT may
\* be bound to
Primaries ==
  {t \in DOMAIN data : tasks[t].type = ZBX_PP_TASK_VALUE /\ InSeq(delivered, t)}

DataInputs ==
  {<<ZBX_PP_TASK_VALUE, 1, Payload(<<"inc">>, 1, 1, 3, NoTask)>>,
   <<ZBX_PP_TASK_VALUE, 1, Payload(<<"inc", "fail", "tick">>, 1, 1, 3, NoTask)>>,
   <<ZBX_PP_TASK_VALUE, 1, Payload(<<"fail", "inc">>, 1, 1, 3, NoTask)>>,
   <<ZBX_PP_TASK_VALUE_SEQ, 2, Payload(<<"tick">>, 2, 5, 3, NoTask)>>}
  \cup {<<ZBX_PP_TASK_DEPENDENT, 2, DependentPayload(2, p)>> : p \in Primaries}

NextData ==
  \/ \E e \in DataInputs : EnqueueData(e[1], e[2], e[3])
  \/ FetchFinished
  \/ \E w \in Workers : WorkerStart(w)
  \/ \E w \in Workers : WorkerPop(w)
  \/ \E w \in Workers : WorkerWait(w)
  \/ \E w \in Workers : WorkerWake(w, TRUE)
  \/ \E w \in Workers : WorkerPushFinished(w)

SpecData == Init /\ [][NextData]_vars

\* primaries, their dependents, and the release of storage after fetching
RefInputs ==
  {<<ZBX_PP_TASK_VALUE, 1, Payload(<<"inc">>, 1, 1, 3, NoTask)>>}
  \cup {<<ZBX_PP_TASK_DEPENDENT, 2, DependentPayload(2, p)>> : p \in Primaries}

NextRef ==
  \/ \E e \in RefInputs : EnqueueData(e[1], e[2], e[3])
  \/ FetchFinished
  \/ \E t \in TaskIds : ReleaseStorage(t)
  \/ \E w \in Workers : WorkerStart(w)
  \/ \E w \in Workers : WorkerPop(w)
  \/ \E w \in Workers : WorkerWait(w)
  \/ \E w \in Workers : WorkerWake(w, TRUE)
  \/ \E w \in Workers : WorkerPushFinished(w)

SpecRef == Init /\ [][NextRef]_vars

\* --------------------------------------------- one task, or a primary and
\* its dependent, executed outside the queue
Pipelines == UNION {[1..n -> StepKinds] : n \in 0..MaxSteps}

ExecScenarios ==
  {<< <<NewTask(ZBX_PP_TASK_TEST, 1)>>, <<Payload(pre, NoCache, v, 3, NoTask)>> >> :
     pre \in Pipelines, v \in {1, 5}}
  \cup
  {<< <<NewTask(ty, 1)>>, <<Payload(pre, c, v, 3, NoTask)>> >> :
     ty \in {ZBX_PP_TASK_VALUE, ZBX_PP_TASK_VALUE_SEQ}, pre \in Pipelines,
     c \in {NoCache, 1}, v \in {1, 5}}
  \cup
  {<< <<NewTask(ty, 1), NewTask(ZBX_PP_TASK_DEPENDENT, 2)>>,
      <<Payload(pre, c, v, 3, NoTask), DependentPayload(c2, 1)>> >> :
     ty \in {ZBX_PP_TASK_VALUE, ZBX_PP_TASK_VALUE_SEQ}, pre \in Pipelines,
     c \in {NoCache, 1}, c2 \in {2}, v \in {1, 5}}

InitExec ==
  /\ \E sc \in ExecScenarios :
       /\ tasks = sc[1]
       /\ data = sc[2]
       /\ run = [i \in 1..Len(sc[1]) |-> "new"]
       /\ owner = [i \in 1..Len(sc[1]) |-> NoTask]
       /\ popped = [i \in 1..Len(sc[1]) |-> <<>>]
  /\ cache \in [ItemIds -> {NoEntry, <<9, 9>>}]
  /\ pending = <<>>
  /\ in_progress = {}
  /\ finished = <<>>
  /\ sequences = [k \in ItemIds |-> NoTask]
  /\ worker_count = 0
  /\ lock = 0
  /\ pc = [w \in Workers |-> "start"]
  /\ stop = [w \in Workers |-> 0]
  /\ in = [w \in Workers |-> NoTask]
  /\ cur = [w \in Workers |-> NoTask]
  /\ delivered = <<>>
  /\ interrupted = [w \in Workers |-> FALSE]
  /\ init_flags = [w \in Workers |-> PP_WORKER_INIT_THREAD]
  /\ init_ret = [w \in Workers |-> <<SUCCEED>>]
  /\ stop_called = [w \in Workers |-> FALSE]
  /\ timekeeper = [s \in Slots |-> ZBX_PROCESS_STATE_IDLE]
  /\ widget = _init(0, FALSE)
  /\ poller_config = async_poller_init(ZBX_POLLER_TYPE_SNMP)
  /\ result = <<>>
  /\ results = <<>>
  /\ cache_log = <<>>

NextExec == \E t \in TaskIds : ExecRun(t)

SpecExec == InitExec /\ [][NextExec]_vars

\* ================================================================ claims
IsType(t, ty) == t \in TaskIds /\ tasks[t].type = ty

\* t is a task of the ordered stream of item k
Ordered(t, k) ==
  /\ t \in TaskIds
  /\ tasks[t].type \in {ZBX_PP_TASK_VALUE_SEQ, ZBX_PP_TASK_SEQUENCE}
  /\ tasks[t].itemid = k

\* workers that hold a popped task they have not handed back yet
Holding == {w \in Workers : pc[w] = "exec"}

SubTasks(T) == {t \in TaskIds : owner[t] = T}

\* C1: for every item at most one VALUE_SEQ/SEQUENCE task of the item is in
\* the in_progress lane, and at most one worker holds such a task.
C1_OneOrderedInProgress ==
  \A k \in ItemIds :
    /\ Cardinality({t \in in_progress : Ordered(t, k)}) <= 1
    /\ Cardinality({w \in Holding : Ordered(in[w], k)}) <= 1

\* a SEQUENCE with a second sub-task queued behind the running one is in
\* progress while another worker is free to pop
C1_Witness ==
  \E T \in in_progress, w \in Workers :
    /\ IsType(T, ZBX_PP_TASK_SEQUENCE)
    /\ Len(tasks[T].tasks) >= 2
    /\ pc[w] = "loop" /\ stop[w] = 0

\* C2: of two VALUE_SEQ tasks of one item, the one enqueued later is not
\* started before the earlier one has been run and handed back by push_finished.
C2_SeqStartsAfterPredecessor ==
  \A s2 \in TaskIds :
    (tasks[s2].type = ZBX_PP_TASK_VALUE_SEQ /\ run[s2] # "new")
      => \A s1 \in 1..(s2 - 1) :
           ( /\ tasks[s1].type = ZBX_PP_TASK_VALUE_SEQ
             /\ tasks[s1].itemid = tasks[s2].itemid )
           => run[s1] = "finished"

C2_Witness ==
  \E s1, s2 \in TaskIds :
    /\ IsType(s1, ZBX_PP_TASK_VALUE_SEQ) /\ IsType(s2, ZBX_PP_TASK_VALUE_SEQ)
    /\ tasks[s1].itemid = tasks[s2].itemid
    /\ s1 < s2
    /\ run[s1] = "finished" /\ run[s2] = "running"

\* no task is in a lane of the queue or in the hands of a worker
Quiescent ==
  /\ pending = <<>>
  /\ in_progress = {}
  /\ finished = <<>>
  /\ Holding = {}

\* C3: every task handed to enqueue is returned by fetch_finished at most
\* once, and has been returned once the queue is quiescent.
C3_FetchedExactlyOnce ==
  /\ \A t \in Enqueued : SeqCount(delivered, t) <= 1
  /\ Quiescent => \A t \in Enqueued : InSeq(delivered, t)

\* C4: every task handed to enqueue is eventually returned by fetch_finished.
C4_EveryTaskEventuallyFetched ==
  \A t \in 1..(2 * MaxTasks) : (t \in Enqueued) ~> InSeq(delivered, t)

\* C5: the three lanes together hold as many tasks as were enqueued and not
\* yet returned by fetch_finished.
C5_LaneConservation ==
  Len(pending) + Cardinality(in_progress) + Len(finished)
    = Cardinality(Enqueued) - Len(delivered)

\* C6: a SEQUENCE is on finished (or was fetched from it) only when its list
\* is empty, every sub-task ever put into it has been run and handed back,
\* and they were handed back in the order of their submission.
C6_SequenceFinishedLast ==
  \A T \in TaskIds :
    (IsType(T, ZBX_PP_TASK_SEQUENCE) /\ (InSeq(finished, T) \/ InSeq(delivered, T)))
    => LET sub == SubTasks(T) IN
         /\ tasks[T].tasks = <<>>
         /\ \A t \in sub : run[t] = "finished"
         /\ Len(popped[T]) = Cardinality(sub)
         /\ \A i \in 1..Len(popped[T]) : popped[T][i] \in sub
         /\ \A i, j \in 1..Len(popped[T]) : i < j => popped[T][i] < popped[T][j]

C6_Witness ==
  \E T \in TaskIds :
    /\ IsType(T, ZBX_PP_TASK_SEQUENCE)
    /\ InSeq(finished, T)
    /\ Len(popped[T]) >= 2

\* C7: fetch_finished never returns a SEQUENCE.
C7_NoSequenceFetched ==
  \A i \in 1..Len(delivered) : ~IsType(delivered[i], ZBX_PP_TASK_SEQUENCE)

\* the VALUE_SEQ tasks of item k among the ids of s, in the order of s
RECURSIVE StreamOf(_, _)
StreamOf(s, k) ==
  IF s = <<>> THEN <<>>
  ELSE IF IsType(Head(s), ZBX_PP_TASK_VALUE_SEQ) /\ tasks[Head(s)].itemid = k
       THEN <<Head(s)>> \o StreamOf(Tail(s), k)
       ELSE StreamOf(Tail(s), k)

AllIds == [i \in TaskIds |-> i]

IsPrefix(s, t) == Len(s) <= Len(t) /\ \A i \in 1..Len(s) : s[i] = t[i]

\* C8: the VALUE_SEQ tasks of an item are returned by fetch_finished in the
\* order of their submission: what has been returned is a prefix of what was
\* enqueued, and all of it once the queue is quiescent.
C8_StreamFetchedInOrder ==
  \A k \in ItemIds :
    /\ IsPrefix(StreamOf(delivered, k), StreamOf(AllIds, k))
    /\ Quiescent => StreamOf(delivered, k) = StreamOf(AllIds, k)

\* C9: for every item at most one SEQUENCE of the item is in pending and
\* in_progress together, and sequences has an entry for the item exactly then
\* (the entry being that SEQUENCE).
LiveSequences(k) ==
  {T \in TaskIds : /\ IsType(T, ZBX_PP_TASK_SEQUENCE)
                   /\ tasks[T].itemid = k
                   /\ (InSeq(pending, T) \/ T \in in_progress)}

C9_OneSequencePerItem ==
  \A k \in ItemIds :
    LET live == LiveSequences(k) IN
      /\ Cardinality(live) <= 1
      /\ \A T \in live : SeqCount(pending, T) + (IF T \in in_progress THEN 1 ELSE 0) = 1
      /\ (sequences[k] # NoTask) <=> (live # {})
      /\ sequences[k] # NoTask => sequences[k] \in live

\* a second SEQUENCE of an item is live after the first one has run dry
C9_Witness ==
  \E k \in ItemIds, T \in TaskIds :
    /\ IsType(T, ZBX_PP_TASK_SEQUENCE) /\ tasks[T].itemid = k
    /\ sequences[k] # NoTask /\ sequences[k] # T
    /\ sequences[k] \in in_progress

\* C10: a worker that holds a task keeps it, stop flag set or not, until it
\* hands it to push_finished (the task then is on finished or back on
\* pending); it only leaves from the loop head, holding nothing.
C10_Step(w) ==
  /\ (w \in Holding /\ pc'[w] # "exec")
       => /\ pc'[w] = "loop"
          /\ in[w] \notin in_progress'
          /\ (InSeq(finished', in[w]) \/ InSeq(pending', in[w]))
  /\ (pc'[w] = "exited" /\ pc[w] # "exited") => pc[w] = "loop"

C10_StopDoesNotLoseTask == [][\A w \in Workers : C10_Step(w)]_vars

\* a worker told to stop in the middle of a task has handed it back and is
\* about to leave
C10_Witness ==
  \E w \in Workers :
    /\ interrupted[w]
    /\ pc[w] = "loop" /\ stop[w] # 0
    /\ in[w] # NoTask
    /\ (InSeq(finished, in[w]) \/ InSeq(pending, in[w]))

\* pp_worker_init has returned for every worker, and pp_worker_stop has been
\* called on every worker whose thread was created
AllStopCalled ==
  \A w \in Workers : init_ret[w] # <<>> /\ (pc[w] # "none" => stop_called[w])

\* every thread that was created has left its loop, deregistered and returned
AllReturned == \A w \in Workers : pc[w] \in {"none", "exited"}

\* C11: once pp_worker_stop has been called on every worker whose thread was
\* created, at whatever moment after its pp_worker_init returned, every worker
\* thread eventually returns (so the joins of pp_worker_destroy return).
C11_ShutdownTerminates == AllStopCalled ~> AllReturned

\* the tasks with a payload of one of the given kinds
DataTasks(types) == {t \in DOMAIN data : tasks[t].type \in types}

ValueTasks == DataTasks({ZBX_PP_TASK_VALUE, ZBX_PP_TASK_VALUE_SEQ})

\* the DEPENDENT tasks bound to primary t
DependentsOf(t) ==
  {d \in DataTasks({ZBX_PP_TASK_DEPENDENT}) : data[d].primary = t}

\* what the pipeline of task t yields on the input of t
Outcome(t) == pp_execute_steps(data[t].preproc, 1, data[t].value, data[t].ts, <<>>)

\* number of writes to cache entry k made by the pipelines run for the tasks T
CacheWrites(T, k) ==
  Cardinality({i \in 1..Len(cache_log) : cache_log[i][1] \in T /\ cache_log[i][2] = k})

Executed(t) == t \in TaskIds /\ run[t] # "finished" /\ run'[t] = "finished"

\* the cache entry a pipeline leaves for the outcome o
Entry(o) == <<o.value, o.ts>>

\* C13: executing a VALUE task whose pipeline fails or discards leaves the
\* cache as it was; executing one whose pipeline succeeds leaves the cache
\* entry of its item equal to its final result when the task supplies a cache
\* reference, and leaves the cache as it was when it supplies none.
C13_Step(t) ==
  (Executed(t) /\ t \in DataTasks({ZBX_PP_TASK_VALUE}))
  => /\ result'[t].status = Outcome(t).status
     /\ IF Outcome(t).status = "value" /\ data[t].cache # NoCache
        THEN cache' = [cache EXCEPT ![tasks[t].itemid] = Entry(result'[t])]
        ELSE cache' = cache

C13_ValueCacheFrame == [][\A t \in TaskIds : C13_Step(t)]_vars

\* the claim as worded: every VALUE task whose pipeline succeeds leaves the
\* cache entry of its item equal to its final result
C13_OriginalStep(t) ==
  (Executed(t) /\ t \in DataTasks({ZBX_PP_TASK_VALUE}))
  => IF Outcome(t).status = "value"
     THEN cache'[tasks[t].itemid] = Entry(result'[t])
     ELSE cache' = cache

C13_Original == [][\A t \in TaskIds : C13_OriginalStep(t)]_vars

\* a VALUE task with a cache reference has run to success over an entry that
\* held something else
C13_Witness ==
  \E t \in DataTasks({ZBX_PP_TASK_VALUE}) :
    /\ run[t] = "finished"
    /\ data[t].cache # NoCache
    /\ result[t].status = "value"
    /\ Len(data[t].preproc) = MaxSteps
    /\ cache[tasks[t].itemid] = Entry(result[t])
    /\ cache[tasks[t].itemid] # <<9, 9>>

C15_SoleOwnerOfResultSlot ==
  \A t \in TaskIds : Cardinality(Writers(t)) <= 1

\* index of the first step of the list that fails, 0 when the pipeline ends
\* (by success or by a discard) before any step fails
RECURSIVE FirstError(_, _)
FirstError(steps, i) ==
  IF i > Len(steps) \/ steps[i] = "discard" THEN 0
  ELSE IF steps[i] = "fail" THEN i
  ELSE FirstError(steps, i + 1)

\* the places of the queue and of the supervisor where task t is
Places(t) ==
  SeqCount(pending, t) + (IF t \in in_progress THEN 1 ELSE 0)
    + SeqCount(finished, t) + SeqCount(delivered, t)

\* the tasks that own the result slot their pipeline writes
SlotOwners ==
  DataTasks({ZBX_PP_TASK_TEST, ZBX_PP_TASK_VALUE, ZBX_PP_TASK_VALUE_SEQ})

\* the pipeline of t ends in this step, a step i of it having failed: the
\* result names step i and no step after i was evaluated, no cache write is
\* made
C16_Step(t) ==
  (Executed(t) /\ t \in SlotOwners /\ FirstError(data[t].preproc, 1) > 0)
  => /\ result'[t].status = "error"
     /\ result'[t].step = FirstError(data[t].preproc, 1)
     /\ result'[t].evaluated = FirstError(data[t].preproc, 1)
     /\ cache' = cache

\* a task popped from pending whose pipeline failed is on finished or has
\* been fetched, once, and is in no other place
C16_FinishedOnce ==
  \A t \in DataTasks({ZBX_PP_TASK_TEST, ZBX_PP_TASK_VALUE}) :
    (run[t] = "finished" /\ FirstError(data[t].preproc, 1) > 0)
    => /\ Places(t) = 1
       /\ SeqCount(finished, t) + SeqCount(delivered, t) = 1

\* C16: when step i of the pipeline of a task fails, no step after i is
\* evaluated and the result of the task is an error that names step i; the
\* task is then handed back like any other: it is on finished or fetched,
\* once, and never on pending again.
C16_ErrorShortCircuits ==
  /\ [][\A t \in TaskIds : C16_Step(t)]_vars
  /\ []C16_FinishedOnce

\* a task whose second step of three failed is on finished
C16_Witness ==
  \E t \in DataTasks({ZBX_PP_TASK_VALUE}) :
    /\ run[t] = "finished"
    /\ FirstError(data[t].preproc, 1) = 2
    /\ Len(data[t].preproc) = 3
    /\ InSeq(finished, t)

\* the state after step i of the pipeline of task t
StateAfter(t, i) ==
  Entry(pp_execute_steps(SubSeq(data[t].preproc, 1, i), 1, data[t].value,
                         data[t].ts, <<>>))

\* C17: a TEST task whose steps all succeed has, once executed, a per-step
\* results vector as long as its step list, whose i-th entry is the (value,
\* timestamp) after step i; no per-step results exist for any other task.
C17_PerStepResults ==
  /\ \A t \in DataTasks({ZBX_PP_TASK_TEST}) :
       (run[t] = "finished" /\ Outcome(t).status = "value")
       => /\ t \in DOMAIN results
          /\ Len(results[t]) = Len(data[t].preproc)
          /\ \A i \in 1..Len(results[t]) : results[t][i] = StateAfter(t, i)
  /\ DOMAIN results \subseteq DataTasks({ZBX_PP_TASK_TEST})

\* a TEST task of the longest pipeline has run to success
C17_Witness ==
  \E t \in DataTasks({ZBX_PP_TASK_TEST}) :
    /\ run[t] = "finished"
    /\ Outcome(t).status = "value"
    /\ Len(data[t].preproc) = MaxSteps
    /\ Len(results[t]) = MaxSteps
    /\ results[t][1] # results[t][MaxSteps]

\* C18: what pp_worker_init returned is SUCCEED when the thread of the worker
\* was created, and FAIL when it was not.
C18_InitReturnsSucceedOrFail ==
  \A w \in Workers :
    init_ret[w] # <<>>
      => init_ret[w][1] = (IF pc[w] # "none" THEN SUCCEED ELSE FAIL)

\* C19: in_progress holds at most as many tasks as there are registered
\* workers; each worker in the middle of a task holds one task of in_progress,
\* no two workers hold the same one and in_progress holds nothing else.
C19_InProgressBounded ==
  /\ Cardinality(in_progress) <= worker_count
  /\ in_progress = {in[w] : w \in Holding}
  /\ \A w1, w2 \in Holding : w1 # w2 => in[w1] # in[w2]

\* every registered worker holds a task
C19_Witness ==
  /\ worker_count = NWorkers
  /\ Cardinality(in_progress) = NWorkers
  /\ Holding = Workers

\* C21: a wait that fails stops the waiting worker only. The step in which the
\* failure is reported sets that worker's stop flag and nothing else of the
\* other workers or of the lanes; the worker's next step deregisters once with
\* M held, releases M and ends the thread, again leaving the other stop flags
\* and the lanes alone; a thread that ended never acts again, and the worker
\* count only ever changes in a step of a worker.
C21_WaitFailed(w) ==
  /\ pc[w] = "wait"
  /\ pc'[w] = "loop"
  /\ stop'[w] # stop[w]

C21_Leaves(w) ==
  /\ pc[w] = "loop"
  /\ stop[w] # 0
  /\ pc'[w] # pc[w]

C21_OthersUntouched(w) ==
  /\ \A v \in Workers \ {w} : stop'[v] = stop[v]
  /\ UNCHANGED <<pending, in_progress, finished>>

C21_Step(w) ==
  /\ C21_WaitFailed(w)
       => /\ stop'[w] = 1
          /\ lock' = w
          /\ worker_count' = worker_count
          /\ C21_OthersUntouched(w)
  /\ C21_Leaves(w)
       => /\ pc'[w] = "exited"
          /\ lock = w
          /\ lock' = 0
          /\ worker_count' = worker_count - 1
          /\ C21_OthersUntouched(w)
  /\ pc[w] = "exited" => pc'[w] = "exited"

C21_WaitFailureStopsOneWorker ==
  [][/\ \A w \in Workers : C21_Step(w)
     /\ worker_count' # worker_count => \E w \in Workers : pc'[w] # pc[w]]_vars

\* a worker left after a failed wait while another one, not stopped, is in the
\* middle of a task and more work is pending
C21_Witness ==
  \E w, v \in Workers :
    /\ pc[w] = "exited"
    /\ stop[w] = 1
    /\ pc[v] = "exec"
    /\ stop[v] = 0
    /\ worker_count = NWorkers - 1
    /\ pending # <<>>

\* C22: a worker that holds a SEQUENCE for which it found no sub-task to run
\* (the internal queue was empty when it looked) does not go on to hand the
\* SEQUENCE back through push_finished.
C22_HandedNothingToRun(w) ==
  /\ pc[w] = "exec"
  /\ tasks[in[w]].type = ZBX_PP_TASK_SEQUENCE
  /\ cur[w] = NoTask

C23_Available(p) ==
  /\ p \in TaskIds
  /\ tasks[p].type \in {ZBX_PP_TASK_VALUE, ZBX_PP_TASK_VALUE_SEQ}
  /\ p \in DOMAIN data

C24_OldTasksKept(except) ==
  \A t \in TaskIds \ except : tasks'[t] = tasks[t]

C24_Enqueue ==
  LET n   == Len(tasks) + 1
      new == tasks'[n]
      seq == sequences[new.itemid]
  IN  /\ UNCHANGED <<in_progress, finished>>
      /\ IF new.type # ZBX_PP_TASK_VALUE_SEQ
         THEN /\ Len(tasks') = n
              /\ pending' = Append(pending, n)
              /\ UNCHANGED sequences
              /\ C24_OldTasksKept({})
         ELSE IF seq # NoTask
         THEN /\ Len(tasks') = n
              /\ tasks'[seq].tasks = Append(tasks[seq].tasks, n)
              /\ tasks'[seq].type = ZBX_PP_TASK_SEQUENCE
              /\ UNCHANGED <<pending, sequences>>
              /\ C24_OldTasksKept({seq})
         ELSE /\ Len(tasks') = n + 1
              /\ tasks'[n + 1] = [type |-> ZBX_PP_TASK_SEQUENCE,
                                   itemid |-> new.itemid, tasks |-> <<n>>]
              /\ sequences' = [sequences EXCEPT ![new.itemid] = n + 1]
              /\ pending' = Append(pending, n + 1)
              /\ C24_OldTasksKept({})

C24_EnqueueFrame == [][Len(tasks') > Len(tasks) => C24_Enqueue]_vars

\* a VALUE_SEQ has joined the SEQUENCE of its item
C24_Witness ==
  \E t \in TaskIds :
    /\ tasks[t].type = ZBX_PP_TASK_SEQUENCE
    /\ Len(tasks[t].tasks) = 2
    /\ sequences[tasks[t].itemid] = t

\* C25: pop_new. A worker is told that there is nothing to pop exactly when
\* pending is empty, and then pop_new changes nothing; otherwise the worker
\* gets the head of pending, which leaves pending and joins in_progress. As
\* pending only ever grows at its tail and shrinks at its head, tasks leave
\* it in the order in which they entered it.
C25_Step(w) ==
  /\ (pc[w] = "loop" /\ pc'[w] = "wait")
       => /\ pending = <<>>
          /\ in'[w] = NoTask
          /\ UNCHANGED <<pending, in_progress>>
  /\ (pc[w] = "loop" /\ pc'[w] = "exec")
       => /\ pending # <<>>
          /\ in'[w] = Head(pending)
          /\ pending' = Tail(pending)
          /\ Head(pending) \notin in_progress
          /\ in_progress' = in_progress \cup {Head(pending)}

C25_PopNewTakesHead ==
  [][/\ \A w \in Workers : C25_Step(w)
     /\ pending' # pending
          => \/ pending # <<>> /\ pending' = Tail(pending)
             \/ \E t \in 1..Len(tasks') : pending' = Append(pending, t)]_vars

\* one worker got the head of pending while more tasks stay behind, another
\* one found pending empty earlier and waits
C25_Witness ==
  \E w, v \in Workers :
    /\ pc[w] = "exec"
    /\ in[w] \in in_progress
    /\ pending # <<>>
    /\ pc[v] = "wait"
    /\ in[v] = NoTask

\* C26: push_finished, as a worker calls it for the task it holds. A SEQUENCE
\* that has sub-tasks left once its head is dropped leaves in_progress, goes
\* to the tail of pending behind all that is pending, stays off finished and
\* keeps its entry in sequences. A task that is no SEQUENCE leaves in_progress
\* and is appended to finished; pending and sequences stay as they are.
C26_Returns(w) == pc[w] = "exec" /\ pc'[w] # "exec"

C26_Step(w) ==
  LET t == in[w]
  IN  C26_Returns(w)
        => /\ t \in in_progress
           /\ in_progress' = in_progress \ {t}
           /\ IF tasks[t].type # ZBX_PP_TASK_SEQUENCE
              THEN /\ finished' = Append(finished, t)
                   /\ UNCHANGED <<pending, sequences>>
              ELSE Len(tasks[t].tasks) > 1
                     => /\ pending' = Append(pending, t)
                        /\ tasks'[t].tasks = Tail(tasks[t].tasks)
                        /\ sequences[tasks[t].itemid] = t
                        /\ UNCHANGED <<finished, sequences>>

C26_PushFinishedFrame == [][\A w \in Workers : C26_Step(w)]_vars

\* a SEQUENCE that ran its first sub-task stands in pending behind a task that
\* was pending before it came back
C26_Witness ==
  \E t \in TaskIds :
    /\ tasks[t].type = ZBX_PP_TASK_SEQUENCE
    /\ popped[t] # <<>>
    /\ Len(pending) > 1
    /\ pending[Len(pending)] = t
    /\ sequences[tasks[t].itemid] = t
    /\ ~InSeq(finished, t)

\* C27: every pop of a SEQUENCE runs one sub-task, the head of its internal
\* queue, and the SEQUENCE is then returned with just that sub-task taken off;
\* so the sub-tasks run are as many as the pops, and a SEQUENCE that has run
\* dry was popped once per sub-task it ever received. A SEQUENCE that is put
\* back stands behind all that is pending, nothing gets in front of it later,
\* and it is popped again only from the head of pending: what was pending
\* when it was put back is popped before its next sub-task runs.
C27_Ahead(q, T) ==
  LET at == CHOOSE i \in 1..Len(q) : q[i] = T
  IN  IF InSeq(q, T) THEN {q[i] : i \in 1..(at - 1)}
      ELSE {q[i] : i \in 1..Len(q)}

C27_Pops(T) == Len(popped[T]) + (IF T \in in_progress THEN 1 ELSE 0)

C27_Run(T) == {t \in SubTasks(T) : run[t] \in {"running", "finished"}}

C27_Step(w) ==
  /\ (pc[w] = "loop" /\ pc'[w] = "exec" /\ IsType(in'[w], ZBX_PP_TASK_SEQUENCE))
       => LET T == in'[w]
          IN  /\ cur'[w] = Head(tasks[T].tasks)
              /\ run[cur'[w]] = "new"
              /\ run' = [run EXCEPT ![cur'[w]] = "running"]
              /\ C27_Ahead(pending, T) = {}
  /\ (pc[w] = "exec" /\ pc'[w] = "loop" /\ IsType(in[w], ZBX_PP_TASK_SEQUENCE))
       => LET T == in[w]
          IN  /\ popped' = [popped EXCEPT ![T] = Append(@, cur[w])]
              /\ run' = [run EXCEPT ![cur[w]] = "finished"]
              /\ tasks'[T].tasks = Tail(tasks[T].tasks)
              /\ InSeq(pending', T)
                   => C27_Ahead(pending', T) = {pending[i] : i \in 1..Len(pending)}

C27_NotOvertaken(T) ==
  (InSeq(pending, T) /\ InSeq(pending', T))
    => C27_Ahead(pending', T) \subseteq C27_Ahead(pending, T)

C27_Counts(T) ==
  /\ Cardinality(C27_Run(T)) = C27_Pops(T)
  /\ Len(popped[T]) + Len(tasks[T].tasks) = Cardinality(SubTasks(T))
  /\ (InSeq(finished, T) \/ InSeq(delivered, T))
       => C27_Pops(T) = Cardinality(SubTasks(T))

C27_OneSubTaskPerPop ==
  /\ [][/\ \A w \in Workers : C27_Step(w)
        /\ \A T \in TaskIds :
             IsType(T, ZBX_PP_TASK_SEQUENCE) => C27_NotOvertaken(T)]_vars
  /\ [](\A T \in TaskIds : IsType(T, ZBX_PP_TASK_SEQUENCE) => C27_Counts(T))

\* a SEQUENCE of two sub-tasks was popped twice and has run dry; a task of
\* another item, handed over before the second sub-task, finished before it
C27_Witness ==
  \E T, u \in TaskIds :
    /\ IsType(T, ZBX_PP_TASK_SEQUENCE)
    /\ InSeq(finished, T)
    /\ Len(popped[T]) = 2
    /\ tasks[u].itemid # tasks[T].itemid
    /\ u < popped[T][2]
    /\ finished[1] = u

\* C28: lock protocol. M has at most one holder; a worker holds M exactly
\* while it stands at the head of its loop, where pop_new, wait and
\* deregister_worker are called, and not while it runs a task, waits, or
\* after it has returned. Every step of a worker either starts with M held
\* and gives it up (pop_new, wait, deregister_worker) or finds M free and
\* takes it (register_worker, the return from wait, push_finished); the
\* worker count and the lanes only change in such a step or in a step of the
\* supervisor, which needs M free.
C28_Step(w) ==
  pc'[w] # pc[w]
    => IF pc[w] = "loop"
       THEN lock = w /\ lock' = 0
       ELSE lock = 0 /\ lock' = w /\ pc'[w] = "loop"

C28_Held ==
  /\ lock \in {0} \cup Workers
  /\ \A w \in Workers : lock = w <=> pc[w] = "loop"

C28_LockProtocol ==
  /\ [][/\ \A w \in Workers : C28_Step(w)
        /\ <<worker_count, pending, in_progress, finished>>'
             # <<worker_count, pending, in_progress, finished>>
             => \/ \E w \in Workers : pc'[w] # pc[w]
                \/ lock = 0 /\ lock' = 0]_vars
  /\ []C28_Held

\* one worker runs a task without M, another one holds M and is about to
\* deregister and return
C28_Witness ==
  \E w, v \in Workers :
    /\ pc[w] = "exec"
    /\ lock = v
    /\ pc[v] = "loop"
    /\ stop[v] # 0
    /\ worker_count = NWorkers

\* C29: a worker that pop_new handed a task keeps that task until it passes
\* it to push_finished, which it does in its next step and before it pops,
\* waits or deregisters: these start at the loop head only, and the worker
\* comes back to the loop head only through push_finished of its own task.
\* A task leaves in_progress only in the push_finished of the worker that
\* popped it, one task per push_finished.
C29_Step(w) ==
  /\ (pc[w] = "loop" /\ pc'[w] = "exec")
       => /\ in'[w] \notin in_progress
          /\ in_progress' = in_progress \cup {in'[w]}
  /\ pc[w] = "exec"
       => /\ in'[w] = in[w]
          /\ in[w] \in in_progress
          /\ pc'[w] \in {"exec", "loop"}
          /\ pc'[w] = "loop" => in_progress' = in_progress \ {in[w]}
  /\ (pc'[w] \in {"exec", "wait", "exited"} /\ pc'[w] # pc[w]) => pc[w] = "loop"

C29_PushedOnceByItsWorker ==
  [][/\ \A w \in Workers : C29_Step(w)
     /\ \A t \in in_progress \ in_progress' :
          \E w \in Workers : pc[w] = "exec" /\ pc'[w] = "loop" /\ in[w] = t]_vars

\* the only worker that ever started has handed back one task and holds the
\* next one
C29_Witness ==
  \E w \in Workers :
    /\ pc[w] = "exec"
    /\ in[w] \in in_progress
    /\ finished # <<>>
    /\ \A v \in Workers \ {w} : pc[v] = "start"

\* C30: a worker thread registers once, in its first step and so before it
\* pops anything, and deregisters once, in its last step, which starts at the
\* loop head and so after its last push_finished; nothing else changes the
\* worker count. The count is the number of threads that have registered and
\* not yet deregistered, it is never negative, and it is 0 once every thread
\* has returned.
C30_Registered == {w \in Workers : pc[w] \in {"loop", "exec", "wait"}}

C30_Step(w) ==
  /\ (pc[w] = "start" /\ pc'[w] # "start")
       => (pc'[w] = "loop" /\ worker_count' = worker_count + 1)
  /\ pc[w] # "start" => pc'[w] # "start"
  /\ (pc'[w] = "exited" /\ pc[w] # "exited")
       => (pc[w] = "loop" /\ worker_count' = worker_count - 1)
  /\ pc[w] = "exited" => pc'[w] = "exited"

C30_Count ==
  /\ worker_count = Cardinality(C30_Registered)
  /\ worker_count >= 0
  /\ (\A w \in Workers : pc[w] = "exited") => worker_count = 0

C30_RegisterOnceDeregisterOnce ==
  /\ [][/\ \A w \in Workers : C30_Step(w)
        /\ worker_count' # worker_count
             => \E w \in Workers :
                  pc'[w] # pc[w] /\ (pc[w] = "start" \/ pc'[w] = "exited")]_vars
  /\ []C30_Count

\* every thread has worked and returned, and the count is back at 0
C30_Witness ==
  /\ \A w \in Workers : pc[w] = "exited"
  /\ worker_count = 0
  /\ finished # <<>>
  /\ delivered # <<>>

\* C31: fetch_finished hands the supervisor all that is on finished, in the
\* order of finished, and leaves finished empty; pending, in_progress and
\* sequences are as before. finished itself only grows at its tail, one task
\* per push_finished, so its order is the order of placement.
C31_Fetch ==
  /\ delivered' = delivered \o finished
  /\ finished' = <<>>
  /\ UNCHANGED <<pending, in_progress, sequences>>

C31_FetchFinishedFrame ==
  [][/\ delivered' # delivered => C31_Fetch
     /\ finished' # finished
          => \/ delivered' # delivered
             \/ \E t \in TaskIds : finished' = Append(finished, t)]_vars

\* two tasks have been fetched, finished is empty and a worker holds a third
C31_Witness ==
  /\ Len(delivered) = 2
  /\ finished = <<>>
  /\ in_progress # {}

\* C32: no wake-up is lost. With waits that end by signals only and fair
\* scheduling of the workers, pending does not stay non-empty forever: as
\* only pop_new takes tasks off pending, every task that stands in pending is
\* eventually popped, and no worker stays blocked in wait for ever while
\* pending is not empty.
C32_NoLostWakeup == (pending # <<>>) ~> (pending = <<>>)

\* a worker is still blocked in wait although a task is pending: the signal
\* of the enqueue woke the other one
C32_Witness ==
  \E w, v \in Workers :
    /\ pc[w] = "wait"
    /\ pc[v] = "woken"
    /\ pending # <<>>

\* C33: every task is in at most one place: at one position of pending, in
\* in_progress, at one position of finished, or at one position of the
\* internal queue of one SEQUENCE.
C33_At(q, t, kind, T) == {<<kind, T, i>> : i \in {j \in 1..Len(q) : q[j] = t}}

C33_Places(t) ==
  C33_At(pending, t, 1, 0)
    \cup (IF t \in in_progress THEN {<<2, 0, 0>>} ELSE {})
    \cup C33_At(finished, t, 3, 0)
    \cup UNION {C33_At(tasks[T].tasks, t, 4, T) : T \in TaskIds}

C33_OnePlacePerTask == \A t \in TaskIds : Cardinality(C33_Places(t)) <= 1

\* the four kinds of places are in use at once: a task in pending, a SEQUENCE
\* in progress with its sub-task in its internal queue, a task on finished
C33_Witness ==
  \E a, b, T, c \in TaskIds :
    /\ C33_Places(a) = {<<1, 0, 1>>}
    /\ C33_Places(T) = {<<2, 0, 0>>}
    /\ C33_Places(b) = {<<4, T, 1>>}
    /\ C33_Places(c) = {<<3, 0, 1>>}

\* C34: the stop flag is looked at between tasks only. A worker that holds a
\* task goes on to hand it back whatever its flag says; a worker that stands
\* at the loop head with its flag set pops nothing and does not wait, also
\* when pending is not empty: its next step is to leave. Once every worker
\* has left, no task is taken off pending, no task starts to run and nothing
\* is added to finished.
C34_AllStopped == \A w \in Workers : pc[w] = "exited"

C34_Step(w) ==
  /\ pc[w] = "exec" => pc'[w] \in {"exec", "loop"}
  /\ (pc[w] = "loop" /\ stop[w] # 0)
       => /\ pc'[w] \in {"loop", "exited"}
          /\ in_progress' = in_progress
          /\ \A i \in 1..Len(pending) : pending'[i] = pending[i]

C34_StopBetweenTasks ==
  [][/\ \A w \in Workers : C34_Step(w)
     /\ C34_AllStopped
          => /\ C34_AllStopped'
             /\ Len(pending') >= Len(pending)
             /\ \A i \in 1..Len(pending) : pending'[i] = pending[i]
             /\ \A t \in TaskIds : run'[t] = run[t]
             /\ in_progress' = in_progress
             /\ \A t \in 1..Len(tasks') : InSeq(finished', t) => InSeq(finished, t)]_vars

\* every worker has left while a task that never ran stands in pending
C34_Witness ==
  /\ C34_AllStopped
  /\ pending # <<>>
  /\ \A i \in 1..Len(pending) : run[Dispatch(pending[i])] = "new"
  /\ delivered # <<>>

\* C35: the slot id - 1 of a worker is set to BUSY in the worker's step that
\* follows its release of M with a popped task, and back to IDLE in the step
\* in which the task has been run; nothing else ever changes the slot, so no
\* other worker writes it and, once the worker has run a task, the slot is
\* BUSY during these periods and IDLE at all other times: it is IDLE when
\* the worker is back at the loop head from a task ('in' still names it).
\* The worker does not hold M while it has its slot marked BUSY.
C35_Step(w) ==
  /\ (pc[w] = "exec" /\ pc'[w] # "exec")
       => /\ pc'[w] = "busy"
          /\ timekeeper' = [timekeeper EXCEPT ![w - 1] = ZBX_PROCESS_STATE_BUSY]
          /\ lock # w /\ lock' # w
  /\ (pc[w] = "busy" /\ pc'[w] # "busy")
       => /\ pc'[w] = "done"
          /\ timekeeper' = [timekeeper EXCEPT ![w - 1] = ZBX_PROCESS_STATE_IDLE]
  /\ timekeeper'[w - 1] # timekeeper[w - 1]
       => (pc[w] \in {"exec", "busy"} /\ pc'[w] # pc[w])

C35_Marked ==
  \A w \in Workers :
    /\ pc[w] = "busy" => (timekeeper[w - 1] = ZBX_PROCESS_STATE_BUSY /\ lock # w)
    /\ pc[w] = "done" => timekeeper[w - 1] = ZBX_PROCESS_STATE_IDLE
    /\ (pc[w] = "loop" /\ in[w] # NoTask)
         => timekeeper[w - 1] = ZBX_PROCESS_STATE_IDLE

C35_TimekeeperBusyWhileRunning ==
  /\ [][\A w \in Workers : C35_Step(w)]_vars
  /\ []C35_Marked

\* one worker runs a task with its slot BUSY while another one, whose slot is
\* IDLE, holds M, and a task has been run before
C35_Witness ==
  \E w, v \in Workers :
    /\ pc[w] = "busy"
    /\ timekeeper[w - 1] = ZBX_PROCESS_STATE_BUSY
    /\ lock = v
    /\ timekeeper[v - 1] = ZBX_PROCESS_STATE_IDLE
    /\ finished # <<>>

\* C36: the execution of a TEST task leaves the value cache as it was, with
\* no write to it on record, whether the pipeline ends in a value, in an error
\* or in a discard; what the task yields is what its own step list makes of
\* its own input, whatever the cache holds.
C36_Step(t) ==
  (Executed(t) /\ t \in DataTasks({ZBX_PP_TASK_TEST}))
  => /\ UNCHANGED <<cache, cache_log>>
     /\ result'[t].status = Outcome(t).status
     /\ result'[t].value = Outcome(t).value

C36_TestLeavesCache == [][\A t \in TaskIds : C36_Step(t)]_vars

\* a TEST task has run to success and the cache entry of its item is still
\* empty
C36_Witness ==
  \E t \in DataTasks({ZBX_PP_TASK_TEST}) :
    /\ run[t] = "finished"
    /\ result[t].status = "value"
    /\ data[t].preproc # <<>>
    /\ cache[tasks[t].itemid] = NoEntry
    /\ cache_log = <<>>

\* C37: a SEQUENCE that stands in pending or is held by a worker has a
\* sub-task in its internal queue and is the one entered in sequences for its
\* item; a SEQUENCE that was placed on finished is no longer entered there
\* and its internal queue is and stays empty: no VALUE_SEQ joins it, whenever
\* the enqueue comes.
C37_Live(T) == InSeq(pending, T) \/ T \in in_progress

C37_Done(T) == InSeq(finished, T) \/ InSeq(delivered, T)

C37_PoppedSequenceNotEmpty ==
  \A T \in TaskIds :
    IsType(T, ZBX_PP_TASK_SEQUENCE)
      => /\ C37_Live(T) \/ C37_Done(T)
         /\ C37_Live(T) => (tasks[T].tasks # <<>> /\ sequences[tasks[T].itemid] = T)
         /\ C37_Done(T) => (tasks[T].tasks = <<>> /\ sequences[tasks[T].itemid] # T)

\* a SEQUENCE that has run dry is on finished, and a VALUE_SEQ of the item
\* that came later has a SEQUENCE of its own, which a worker holds
C37_Witness ==
  \E T, U \in TaskIds :
    /\ IsType(T, ZBX_PP_TASK_SEQUENCE) /\ IsType(U, ZBX_PP_TASK_SEQUENCE)
    /\ tasks[T].itemid = tasks[U].itemid
    /\ InSeq(finished, T)
    /\ Len(popped[T]) = 2
    /\ U \in in_progress
    /\ Len(tasks[U].tasks) = 1

\* C38: while clear_cache is set and processing is not 0, no step starts a
\* check (the checks in flight only shrink); a step that clears the SNMP cache
\* starts from clear_cache = 1 and processing = 0 and ends with clear_cache =
\* 0; processing is never negative, and in the agent and SNMP pollers, whose
\* callback is process_async_result, it is the number of checks in flight:
\* one more for each check started, one less for each callback.
C38_Step ==
  /\ (poller_config.clear_cache = 1 /\ poller_config.processing # 0)
       => poller_config'.contexts \subseteq poller_config.contexts
  /\ poller_config'.snmp_cleared
       => /\ poller_config.clear_cache = 1
          /\ poller_config.processing = 0
          /\ poller_config'.clear_cache = 0

C38_Counted ==
  /\ poller_config.processing >= 0
  /\ poller_config.poller_type # ZBX_POLLER_TYPE_HTTPAGENT
       => poller_config.processing = Cardinality(poller_config.contexts)

C38_CacheClearedWhenIdle == [][C38_Step]_vars /\ []C38_Counted

\* the cache was cleared in a call that went on to start a check, after a
\* result had come back from an earlier check
C38_Witness ==
  /\ poller_config.snmp_cleared
  /\ poller_config.clear_cache = 0
  /\ poller_config.processing = 1
  /\ poller_config.itemids # {}

\* C39: _state changes only inside start, activate, deactivate and destroy,
\* and inside them only along initial -> inactive (start), inactive -> active
\* (activate), active -> inactive (deactivate; destroy of an active widget,
\* which deactivates it first) and inactive -> destroyed (destroy). A call of
\* one of the four in any other state throws 'Unsupported state change.' and
\* leaves _state as it was, and nothing changes the _state of a destroyed
\* widget.
C39_Methods == {"start", "activate", "deactivate", "destroy"}

\* the values _state takes in a call of method that starts in state from
C39_Path(method, from) ==
  CASE method = "start" /\ from = WIDGET_STATE_INITIAL
         -> <<WIDGET_STATE_INITIAL, WIDGET_STATE_INACTIVE>>
    [] method = "activate" /\ from = WIDGET_STATE_INACTIVE
         -> <<WIDGET_STATE_INACTIVE, WIDGET_STATE_ACTIVE>>
    [] method = "deactivate" /\ from = WIDGET_STATE_ACTIVE
         -> <<WIDGET_STATE_ACTIVE, WIDGET_STATE_INACTIVE>>
    [] method = "destroy" /\ from = WIDGET_STATE_INACTIVE
         -> <<WIDGET_STATE_INACTIVE, WIDGET_STATE_DESTROYED>>
    [] method = "destroy" /\ from = WIDGET_STATE_ACTIVE
         -> <<WIDGET_STATE_ACTIVE, WIDGET_STATE_INACTIVE,
              WIDGET_STATE_DESTROYED>>
    [] OTHER -> <<from>>

C39_Call ==
  /\ widget._state = widget.path[Len(widget.path)]
  /\ widget.call \in C39_Methods
       => /\ widget.path = C39_Path(widget.call, widget.path[1])
          /\ widget.thrown = IF Len(widget.path) = 1
                             THEN "Unsupported state change."
                             ELSE ""
  /\ widget.call \notin C39_Methods
       => (Len(widget.path) = 1 /\ widget.thrown = "")

C39_Step ==
  /\ widget'._state # widget._state
       => (widget'.call \in C39_Methods /\ widget'.path[1] = widget._state)
  /\ widget._state = WIDGET_STATE_DESTROYED
       => widget'._state = WIDGET_STATE_DESTROYED

C39_LifeCycle == [][C39_Step]_vars /\ []C39_Call

\* destroy was called on a destroyed widget, which had been destroyed while
\* it was updating
C39_Witness ==
  /\ widget._state = WIDGET_STATE_DESTROYED
  /\ widget.call = "destroy"
  /\ widget.thrown = "Unsupported state change."
  /\ widget._update_abort_controller = "aborted"

\* C40: at most one update request is in flight, and while one is, the abort
\* controller is not null; a step starts a request only from a null
\* controller, and a step that calls _update while the controller is not null
\* starts none and leaves the 1-second timeout armed; the timeout and the
\* interval are never armed together; a widget that is not active has no
\* timer armed and no request that was not aborted, and no step starts a
\* request for it but the activate that makes it active.
C40_CallsUpdate ==
  \/ widget'.call = "activate" /\ widget._state = WIDGET_STATE_INACTIVE
  \/ widget'.call = "setDynamicHost" /\ widget._state = WIDGET_STATE_ACTIVE
  \/ /\ widget'.call = "clickCallback"
     /\ widget._state = WIDGET_STATE_ACTIVE
     /\ widget'._rf_rate > 0
  \/ widget'.call = "timeout"
  \/ widget'.call = "interval"

C40_Starts == Len(widget'.requests) > Len(widget.requests)

C40_Step ==
  /\ C40_Starts => widget._update_abort_controller = null
  /\ (C40_CallsUpdate /\ widget._update_abort_controller # null)
       => /\ ~C40_Starts
          /\ widget'._update_timeout_id # null
          /\ widget'._update_interval_id = null
  /\ (widget._state # WIDGET_STATE_ACTIVE /\ C40_Starts)
       => (widget'.call = "activate" /\ widget'._state = WIDGET_STATE_ACTIVE)

C40_Armed ==
  /\ Len(widget.requests) <= 1
  /\ widget.requests # <<>> => widget._update_abort_controller # null
  /\ ~(widget._update_timeout_id # null /\ widget._update_interval_id # null)
  /\ widget._state # WIDGET_STATE_ACTIVE
       => /\ widget._update_timeout_id = null
          /\ widget._update_interval_id = null
          /\ widget._update_abort_controller # "live"

C40_OneUpdateAtATime == [][C40_Step]_vars /\ []C40_Armed

\* the widget was deactivated and activated again while its request was in
\* flight: the request is aborted and still the only one, and the new cycle
\* waits on the timeout
C40_Witness ==
  /\ widget._state = WIDGET_STATE_ACTIVE
  /\ widget.call = "activate"
  /\ Len(widget.requests) = 1
  /\ widget._update_abort_controller = "aborted"
  /\ widget._update_timeout_id # null
  /\ widget._rf_rate > 0

====
